---- MODULE Spec2Model ----
(***************************************************************************)
(* Model of backend/app/services/templates.py (TemplateService): the       *)
(* concept matcher, the keyword matcher, text sanitization and the slot    *)
(* filler.                                                                 *)
(*                                                                         *)
(* Representation.                                                         *)
(*  - A Python str is a sequence of one-character strings, so that         *)
(*    lower(), replace(), strip(), slicing and the `in` substring test are *)
(*    computed character by character.                                     *)
(*  - A Python float score is an exact fraction [num, den] (den > 0);      *)
(*    fractions are compared by cross-multiplication.  The rounding of     *)
(*    IEEE doubles is not modelled.                                        *)
(*  - The catalog dict `templates` is a sequence of entries in insertion   *)
(*    order, each with the dict key (`key`) and the MemeTemplate fields;   *)
(*    the dict `keywords` is a sequence of [key, groups] in the order of   *)
(*    the keyword file.  A returned template is its position in            *)
(*    `templates`, and 0 is None.                                          *)
(***************************************************************************)
EXTENDS Integers, Sequences, FiniteSets, TLC

VARIABLES templates, keywords, op, arg, ret

vars == <<templates, keywords, op, arg, ret>>

(***************************************************************************)
(* Bounds of the model.                                                    *)
(***************************************************************************)
MaxTemplates == 2
MaxConceptKeywords == 3

(***************************************************************************)
(* Python str operations.                                                  *)
(***************************************************************************)
Range(s) == {s[i] : i \in DOMAIN s}

Max(a, b) == IF a >= b THEN a ELSE b

Min(a, b) == IF a <= b THEN a ELSE b

LowerCase == <<"a", "b", "c", "d", "e", "f", "g", "h", "i", "j", "k", "l", "m",
               "n", "o", "p", "q", "r", "s", "t", "u", "v", "w", "x", "y", "z">>
UpperCase == <<"A", "B", "C", "D", "E", "F", "G", "H", "I", "J", "K", "L", "M",
               "N", "O", "P", "Q", "R", "S", "T", "U", "V", "W", "X", "Y", "Z">>

\* the two case mappings as tables
LowerOf == [ch \in Range(UpperCase) |->
               LowerCase[CHOOSE i \in DOMAIN UpperCase : UpperCase[i] = ch]]
UpperOf == [ch \in Range(LowerCase) |->
               UpperCase[CHOOSE i \in DOMAIN LowerCase : LowerCase[i] = ch]]

\* str.lower() on one character
LowerChar(ch) == IF ch \in DOMAIN LowerOf THEN LowerOf[ch] ELSE ch

\* str.upper() on one character
UpperChar(ch) == IF ch \in DOMAIN UpperOf THEN UpperOf[ch] ELSE ch

\* str.lower()
lower(s) == [i \in 1..Len(s) |-> LowerChar(s[i])]

\* str.replace("_", " ")
replace_underscore(s) == [i \in 1..Len(s) |-> IF s[i] = "_" THEN " " ELSE s[i]]

\* Python `needle in hay` for two strs
Contains(needle, hay) ==
    \E off \in 0..(Len(hay) - Len(needle)) :
        SubSeq(hay, off + 1, off + Len(needle)) = needle

(***************************************************************************)
(* Exact fractions standing for the float scores.                          *)
(***************************************************************************)
Frac(n, d) == [num |-> n, den |-> d]

RAdd(a, b) == Frac(a.num * b.den + b.num * a.den, a.den * b.den)

RGeq(a, b) == a.num * b.den >= b.num * a.den

RGt(a, b) == a.num * b.den > b.num * a.den

REq(a, b) == a.num * b.den = b.num * a.den

(***************************************************************************)
(* match_template: weights of the four score components, in tenths.        *)
(***************************************************************************)
UseCaseWeight == 5
IntentWeight == 3
KeywordWeight == 2
CaptionBonus == 4

\* component 1, templates.py lines 121-124
use_case_score(template, concept) ==
    LET template_use_cases == Range(template.use_cases)
        concept_use_cases == Range(concept.use_cases)
        matches == template_use_cases \cap concept_use_cases
    IN  IF matches # {}
        THEN Frac(UseCaseWeight * Cardinality(matches),
                  10 * Cardinality(template_use_cases))
        ELSE Frac(0, 1)

\* component 2, templates.py lines 115, 127-128
intent_score_exact(template, concept) ==
    IF concept.intent # <<>> /\ concept.intent \in Range(template.use_cases)
    THEN Frac(IntentWeight, 10)
    ELSE Frac(0, 1)

intent_score(template, concept) ==
    LET concept_intent == lower(concept.intent)
    IN  IF concept_intent # <<>> /\ concept_intent \in Range(template.use_cases)
        THEN Frac(IntentWeight, 10)
        ELSE Frac(0, 1)

\* component 3, templates.py lines 114, 131-134
keyword_score(template, concept) ==
    LET concept_keywords == {lower(k) : k \in Range(concept.keywords)}
        template_text == lower(template.name \o <<" ">> \o template.description)
        keyword_matches == {k \in concept_keywords : Contains(k, template_text)}
    IN  IF keyword_matches # {}
        THEN Frac(KeywordWeight * Cardinality(keyword_matches),
                  10 * Max(Cardinality(concept_keywords), 1))
        ELSE Frac(0, 1)

\* component 4, templates.py lines 137-138
caption_score(template, concept) ==
    IF \/ Contains(replace_underscore(template.id), lower(concept.caption))
       \/ Contains(lower(template.name), lower(concept.caption))
    THEN Frac(CaptionBonus, 10)
    ELSE Frac(0, 1)

\* the score of one template, templates.py lines 118-138
score_of(template, concept) ==
    RAdd(RAdd(use_case_score(template, concept), intent_score(template, concept)),
         RAdd(keyword_score(template, concept), caption_score(template, concept)))

\* the selection test of line 142
accepts_without_threshold(score, template, highest_score) ==
    RGt(score, highest_score)

accepts(score, template, highest_score) ==
    /\ RGeq(score, template.confidence_threshold)
    /\ RGt(score, highest_score)

\* the loop of lines 117-144 from position i on; returns best_match
RECURSIVE match_loop(_, _, _, _, _)
match_loop(ts, concept, i, best_match, highest_score) ==
    IF i > Len(ts)
    THEN best_match
    ELSE LET score == score_of(ts[i], concept)
         IN  IF accepts(score, ts[i], highest_score)
             THEN match_loop(ts, concept, i + 1, i, score)
             ELSE match_loop(ts, concept, i + 1, best_match, highest_score)

\* match_template, lines 105-146: best_match starts as None, highest_score as 0.0
match_template(ts, concept) == match_loop(ts, concept, 1, 0, Frac(0, 1))

(***************************************************************************)
(* Inputs of the concept matcher.                                          *)
(***************************************************************************)
Str_a == <<"a">>
Str_b == <<"b">>
Str_x == <<"x">>
Str_y == <<"y">>

\* MemeTemplate records as the definition files may declare them
ConceptTemplatePool ==
    { [key |-> "t1", id |-> <<"a", "_", "b">>, name |-> <<"A", "b">>,
       description |-> <<"c">>, use_cases |-> <<Str_x>>,
       confidence_threshold |-> Frac(3, 10)],
      [key |-> "t2", id |-> <<"B">>, name |-> <<"c", "c">>,
       description |-> <<"a">>, use_cases |-> <<Str_x, Str_y>>,
       confidence_threshold |-> Frac(5, 10)],
      [key |-> "t3", id |-> <<"c">>, name |-> <<"b", " ", "b">>,
       description |-> <<>>, use_cases |-> <<>>,
       confidence_threshold |-> Frac(0, 10)],
      [key |-> "t4", id |-> <<"b", "b">>, name |-> <<"c", "a">>,
       description |-> <<"B">>, use_cases |-> <<<<"X">>, Str_y, Str_y>>,
       confidence_threshold |-> Frac(3, 10)] }

\* all sequences over S of length at most n
SeqsUpTo(S, n) == UNION {[1..k -> S] : k \in 0..n}

\* catalogs: dict keys are unique
Catalogs(pool, n) ==
    {c \in SeqsUpTo(pool, n) :
        \A i, j \in DOMAIN c : i # j => c[i].key # c[j].key}

ConceptKeywordPool == {Str_a, <<"A">>, <<"c", " ", "a">>}

Concepts ==
    [use_cases : {<<>>, <<Str_x>>, <<Str_y, Str_x>>},
     keywords : SeqsUpTo(ConceptKeywordPool, MaxConceptKeywords),
     intent : {<<>>, Str_x, <<"X">>},
     caption : {<<"z">>, <<"A", " ", "B", "c">>, <<"b", "b", " ", "c", "C">>}]

NoCall == [none |-> TRUE]

InitConcept ==
    /\ templates \in Catalogs(ConceptTemplatePool, MaxTemplates)
    /\ keywords = <<>>
    /\ op = "idle"
    /\ arg \in Concepts
    /\ ret = NoCall

\* the pending request calls match_template(concept); the scores are the
\* values line 140 logs
MatchTemplate ==
    /\ op = "idle"
    /\ op' = "match_template"
    /\ ret' = [best_match |-> match_template(templates, arg),
               scores |-> [i \in 1..Len(templates) |->
                               score_of(templates[i], arg)]]
    /\ UNCHANGED <<templates, keywords, arg>>

NextConcept == MatchTemplate

SpecConcept == InitConcept /\ [][NextConcept]_vars


(***************************************************************************)
(* Claims about match_template.                                            *)
(***************************************************************************)
Matched == op = "match_template"

\* template i meets its own confidence_threshold with the score computed for it
Qualifies(i) == RGeq(ret.scores[i], templates[i].confidence_threshold)

\* C1: match_template never returns a template whose computed score is below
\* that template's own confidence_threshold.
C1_NeverBelowOwnThreshold ==
    (Matched /\ ret.best_match # 0) =>
        /\ ret.best_match \in 1..Len(templates)
        /\ Qualifies(ret.best_match)

\* C1 witness: a template is returned while another template of the catalog,
\* with a higher score, was rejected for missing its own threshold.
C1_Witness ==
    /\ Matched
    /\ ret.best_match # 0
    /\ \E j \in 1..Len(templates) :
           /\ ~Qualifies(j)
           /\ RGt(ret.scores[j], ret.scores[ret.best_match])

\* C2: if some template's score is >= its own confidence_threshold (a threshold
\* of 0 met by a score of 0 included), match_template returns a qualifying
\* template of highest score, the first in catalog order among equals, and it
\* returns None only when no template qualifies.
C2_BestQualifyingReturned ==
    Matched =>
        IF \E i \in 1..Len(templates) : Qualifies(i)
        THEN /\ ret.best_match \in 1..Len(templates)
             /\ Qualifies(ret.best_match)
             /\ \A j \in 1..Len(templates) :
                    Qualifies(j) =>
                        /\ RGeq(ret.scores[ret.best_match], ret.scores[j])
                        /\ (j < ret.best_match =>
                                RGt(ret.scores[ret.best_match], ret.scores[j]))
        ELSE ret.best_match = 0

\* case-insensitive substring test, written offset by offset
CISubstring(needle, hay) ==
    \E off \in 0..(Len(hay) - Len(needle)) :
        \A i \in 1..Len(needle) : LowerChar(needle[i]) = LowerChar(hay[off + i])

\* 1 when the condition holds, else 0
Ind(b) == IF b THEN 1 ELSE 0

\* a score assembled from its four ingredients: m of n use cases, intent hit I,
\* k of K keywords, caption hit B
Assembled(m, n, I, k, K, B) ==
    Frac(UseCaseWeight * m * K + IntentWeight * I * n * K
             + KeywordWeight * k * n + CaptionBonus * B * n * K,
         10 * n * K)

UseCasesPresent(t, c) ==
    Cardinality({u \in Range(t.use_cases) : \E i \in DOMAIN c.use_cases : c.use_cases[i] = u})

UseCaseCount(t) == Max(Cardinality(Range(t.use_cases)), 1)

\* the score as the claim words it: intent compared as written, keywords counted
\* one by one, template id and name both compared case-insensitively
ClaimedScore(t, c) ==
    LET text == t.name \o <<" ">> \o t.description
    IN  Assembled(
            UseCasesPresent(t, c), UseCaseCount(t),
            Ind(\E i \in DOMAIN t.use_cases : t.use_cases[i] = c.intent),
            Cardinality({i \in DOMAIN c.keywords : CISubstring(c.keywords[i], text)}),
            Max(Len(c.keywords), 1),
            Ind(\/ CISubstring(replace_underscore(t.id), c.caption)
                \/ CISubstring(t.name, c.caption)))

\* the score as the code computes it: the intent is lower-cased before the
\* comparison, the keywords are lower-cased and counted once each, the template
\* id is compared as written against the lower-cased caption
AmendedScore(t, c) ==
    LET text == t.name \o <<" ">> \o t.description
        distinct == {lower(c.keywords[i]) : i \in DOMAIN c.keywords}
    IN  Assembled(
            UseCasesPresent(t, c), UseCaseCount(t),
            Ind(c.intent # <<>> /\ \E i \in DOMAIN t.use_cases : t.use_cases[i] = lower(c.intent)),
            Cardinality({k \in distinct : CISubstring(k, text)}),
            Max(Cardinality(distinct), 1),
            Ind(\/ \E off \in 0..(Len(c.caption) - Len(t.id)) :
                       \A i \in 1..Len(t.id) :
                           replace_underscore(t.id)[i] = LowerChar(c.caption[off + i])
                \/ CISubstring(t.name, c.caption)))

InScoreRange(s) == RGeq(s, Frac(0, 1)) /\ RGeq(Frac(14, 10), s)

\* C3 as stated: the score equals 0.5 x (fraction of the template's use_cases
\* present in the concept's) + 0.3 if the intent exactly equals a use case
\* + 0.2 x (concept keywords that are substrings of name+description / keyword
\* count) + 0.4 if the id (underscores as spaces) or the name is a
\* case-insensitive substring of the caption; the score lies in [0, 1.4].
C3_ScoreAsClaimed ==
    Matched =>
        \A i \in 1..Len(templates) :
            /\ REq(ret.scores[i], ClaimedScore(templates[i], arg))
            /\ InScoreRange(ret.scores[i])

\* C3 amended: the same sum, with the intent lower-cased before it is compared
\* with the use cases, the keywords lower-cased and counted once each (over
\* the number of distinct lower-cased keywords) against the lower-cased
\* name + " " + description, and the id (underscores as spaces) compared as
\* written with the lower-cased caption; the score lies in [0, 1.4].
C3_ScoreAmended ==
    Matched =>
        \A i \in 1..Len(templates) :
            /\ REq(ret.scores[i], AmendedScore(templates[i], arg))
            /\ InScoreRange(ret.scores[i])

\* C3 witness: a template scored with all four components present, the intent
\* matching only after lower-casing.
C3_Witness ==
    /\ Matched
    /\ \E i \in 1..Len(templates) :
           /\ REq(ret.scores[i], Frac(14, 10))
           /\ arg.intent # lower(arg.intent)


(***************************************************************************)
(* match_templates_by_keywords.                                            *)
(***************************************************************************)
StrongWeight == 3
ContextWeight == 1
NegativeWeight == 2
DefaultThreshold == 3

\* kw_groups.get(name, [])
Get(kw_groups, name) ==
    IF name \in DOMAIN kw_groups THEN kw_groups[name] ELSE <<>>

\* sum(1 for kw in kws if kw.lower() in description_lower), lines 168-170
hits(kws, description_lower) ==
    Cardinality({i \in DOMAIN kws : Contains(lower(kws[i]), description_lower)})

\* line 172
weighted_score_negative_added(strong_hits, context_hits, negative_hits) ==
    (strong_hits * StrongWeight) + context_hits * ContextWeight
        + (negative_hits * NegativeWeight)

weighted_score(strong_hits, context_hits, negative_hits) ==
    (strong_hits * StrongWeight) + context_hits * ContextWeight
        - (negative_hits * NegativeWeight)

\* lines 168-172 for one rule set
rule_set_score(kw_groups, description_lower) ==
    weighted_score(hits(Get(kw_groups, "strong"), description_lower),
                   hits(Get(kw_groups, "context"), description_lower),
                   hits(Get(kw_groups, "negative"), description_lower))

\* template_id in self.templates
InCatalog(ts, template_id) == \E i \in DOMAIN ts : ts[i].key = template_id

\* self.templates[template_id], as a position in the catalog
Lookup(ts, template_id) == CHOOSE i \in DOMAIN ts : ts[i].key = template_id

\* the selection test of line 176
keyword_accepts_ties(score, threshold, highest_score) ==
    score >= threshold /\ score >= highest_score

keyword_accepts_below_threshold(score, threshold, highest_score) ==
    score > highest_score

keyword_accepts(score, threshold, highest_score) ==
    score >= threshold /\ score > highest_score

\* the loop of lines 164-178 from rule set i on; returns the final
\* best_template and the scores computed for the rule sets not skipped
RECURSIVE keyword_loop(_, _, _, _, _, _, _, _)
keyword_loop(ts, kws, description_lower, threshold, i, best_template, highest_score, scores) ==
    IF i > Len(kws)
    THEN [best_template |-> best_template, scores |-> scores]
    ELSE IF ~InCatalog(ts, kws[i].key)
    THEN keyword_loop(ts, kws, description_lower, threshold, i + 1,
                      best_template, highest_score, scores)
    ELSE LET score == rule_set_score(kws[i].groups, description_lower)
             logged == [j \in (DOMAIN scores) \cup {i} |->
                           IF j = i THEN score ELSE scores[j]]
         IN  IF keyword_accepts(score, threshold, highest_score)
             THEN keyword_loop(ts, kws, description_lower, threshold, i + 1,
                               Lookup(ts, kws[i].key), score, logged)
             ELSE keyword_loop(ts, kws, description_lower, threshold, i + 1,
                               best_template, highest_score, logged)

\* match_templates_by_keywords, lines 152-183
match_templates_by_keywords(ts, kws, description, threshold) ==
    IF description = <<>>
    THEN [best_template |-> 0, scores |-> <<>>]
    ELSE keyword_loop(ts, kws, lower(description), threshold, 1, 0, -1, <<>>)

(***************************************************************************)
(* Inputs of the keyword matcher.                                          *)
(***************************************************************************)
MaxRuleSets == 2

KeywordTemplatePool == {[key |-> "t1"], [key |-> "t2"]}

\* rule sets of the keyword file; "t9" names no template of the catalog
RuleSetPool ==
    { [strong |-> <<Str_a>>, context |-> <<>>, negative |-> <<>>],
      [strong |-> <<<<"A">>, Str_b>>, context |-> <<<<"c">>>>, negative |-> <<Str_b>>],
      [negative |-> <<Str_a>>],
      [strong |-> <<Str_b>>, context |-> <<Str_a, <<"c">>>>],
      <<>> }

KeywordFiles ==
    {f \in SeqsUpTo([key : {"t1", "t2", "t9"}, groups : RuleSetPool], MaxRuleSets) :
        \A i, j \in DOMAIN f : i # j => f[i].key # f[j].key}

Descriptions == {<<>>, <<"z">>, <<"A">>, <<"a", "B", "c">>}

Thresholds == {-2, 0, DefaultThreshold}

InitKeyword ==
    /\ templates \in Catalogs(KeywordTemplatePool, MaxTemplates)
    /\ keywords \in KeywordFiles
    /\ op = "idle"
    /\ arg \in [description : Descriptions, threshold : Thresholds]
    /\ ret = NoCall

\* the pending request calls match_templates_by_keywords(description, threshold)
MatchTemplatesByKeywords ==
    /\ op = "idle"
    /\ op' = "match_templates_by_keywords"
    /\ ret' = match_templates_by_keywords(templates, keywords,
                                          arg.description, arg.threshold)
    /\ UNCHANGED <<templates, keywords, arg>>

NextKeyword == MatchTemplatesByKeywords

SpecKeyword == InitKeyword /\ [][NextKeyword]_vars


(***************************************************************************)
(* Claims about match_templates_by_keywords.                               *)
(***************************************************************************)
KeywordMatched == op = "match_templates_by_keywords"

\* number of keywords of a list of the rule set that occur in the description
\* without regard to case; a list the rule set lacks has none
PresentCount(kw_groups, name, description) ==
    IF name \in DOMAIN kw_groups
    THEN Cardinality({i \in DOMAIN kw_groups[name] :
                         CISubstring(kw_groups[name][i], description)})
    ELSE 0

\* the keyword score of rule set i as the specification defines it
StatedKeywordScore(i) ==
    3 * PresentCount(keywords[i].groups, "strong", arg.description)
        + PresentCount(keywords[i].groups, "context", arg.description)
        - 2 * PresentCount(keywords[i].groups, "negative", arg.description)

\* the rule sets that belong to a template of the catalog
CatalogRuleSets == {i \in DOMAIN keywords : InCatalog(templates, keywords[i].key)}

\* the catalog position of the template of rule set i
TemplateOf(i) == CHOOSE t \in DOMAIN templates : templates[t].key = keywords[i].key

\* the rule set of the returned template
ReturnedRuleSet == CHOOSE i \in CatalogRuleSets : TemplateOf(i) = ret.best_template

\* C4: match_templates_by_keywords scores a template as 3 x (strong keywords
\* that are case-insensitive substrings of the description) + 1 x (context
\* keywords so present) - 2 x (negative keywords so present).
C4_KeywordScoreFormula ==
    KeywordMatched =>
        \A i \in DOMAIN ret.scores : ret.scores[i] = StatedKeywordScore(i)

\* C4 witness: a template was scored with a strong, a context and a negative
\* keyword present, one of them differing from the description in case.
C4_Witness ==
    /\ KeywordMatched
    /\ \E i \in DOMAIN ret.scores :
           /\ \A name \in {"strong", "context", "negative"} :
                  PresentCount(keywords[i].groups, name, arg.description) > 0
           /\ \E k \in DOMAIN keywords[i].groups["strong"] :
                  /\ CISubstring(keywords[i].groups["strong"][k], arg.description)
                  /\ ~Contains(keywords[i].groups["strong"][k], arg.description)

\* C5: for every description and every integer threshold, if some catalog
\* template has a keyword score >= the threshold, a template is returned and
\* its score is the maximum over all templates meeting the threshold.  Stated
\* here for the non-empty descriptions; the empty one is the case of C7.
C5_BestMeetingThresholdReturned ==
    (KeywordMatched /\ arg.description # <<>>) =>
        ((\E i \in CatalogRuleSets : StatedKeywordScore(i) >= arg.threshold) =>
            /\ ret.best_template # 0
            /\ \E b \in CatalogRuleSets :
                   /\ TemplateOf(b) = ret.best_template
                   /\ StatedKeywordScore(b) >= arg.threshold
                   /\ \A j \in CatalogRuleSets :
                          StatedKeywordScore(j) >= arg.threshold =>
                              StatedKeywordScore(b) >= StatedKeywordScore(j))

\* the rule sets tied with the returned template's score
TiedWithReturned ==
    {j \in CatalogRuleSets :
        StatedKeywordScore(j) = StatedKeywordScore(ReturnedRuleSet)}

\* C6 as stated: of several templates tied for the highest qualifying keyword
\* score, the one returned comes first in the order in which the templates
\* were loaded into the catalog.
C6_TieFirstInCatalogOrder ==
    (KeywordMatched /\ ret.best_template # 0) =>
        \A j \in TiedWithReturned : ret.best_template <= TemplateOf(j)

\* C6 amended: of several templates tied for the highest qualifying keyword
\* score, the one returned is the one whose rule set comes first in the
\* iteration order of the keyword rule file.
C6_TieFirstInKeywordFileOrder ==
    (KeywordMatched /\ ret.best_template # 0) =>
        /\ StatedKeywordScore(ReturnedRuleSet) >= arg.threshold
        /\ \A j \in CatalogRuleSets :
               StatedKeywordScore(j) >= arg.threshold =>
                   StatedKeywordScore(j) <= StatedKeywordScore(ReturnedRuleSet)
        /\ \A j \in TiedWithReturned : ReturnedRuleSet <= j

\* C6 witness: two templates tie for the highest qualifying score and the
\* keyword file lists them in the opposite order of the catalog.
C6_Witness ==
    /\ KeywordMatched
    /\ ret.best_template # 0
    /\ \E j \in TiedWithReturned :
           /\ j > ReturnedRuleSet
           /\ TemplateOf(j) < ret.best_template

\* C7: match_templates_by_keywords never returns a template whose keyword
\* score is below the threshold nor one absent from the catalog; it returns
\* None when no template reaches the threshold and when the description is
\* empty, a list that a rule set lacks counting for no keyword.
C7_NoneUnlessThresholdMet ==
    KeywordMatched =>
        /\ ret.best_template # 0 =>
               /\ ret.best_template \in DOMAIN templates
               /\ \E i \in CatalogRuleSets :
                      /\ TemplateOf(i) = ret.best_template
                      /\ StatedKeywordScore(i) >= arg.threshold
        /\ (\A i \in CatalogRuleSets : StatedKeywordScore(i) < arg.threshold) =>
               ret.best_template = 0
        /\ arg.description = <<>> => ret.best_template = 0

\* C7 witness: None is returned for a non-empty description although a rule
\* set naming no catalog template reaches the threshold, and a rule set of a
\* catalog template lacks one of its lists.
C7_Witness ==
    /\ KeywordMatched
    /\ ret.best_template = 0
    /\ arg.description # <<>>
    /\ \E i \in DOMAIN keywords :
           /\ i \notin CatalogRuleSets
           /\ StatedKeywordScore(i) >= arg.threshold
    /\ \E j \in CatalogRuleSets :
           DOMAIN keywords[j].groups # {"strong", "context", "negative"}


(***************************************************************************)
(* sanitize_text.                                                          *)
(***************************************************************************)
EllipsisLen == 3

\* the characters str.strip() removes
IsSpace(ch) == ch = " "

RECURSIVE lstrip(_)
lstrip(s) == IF s # <<>> /\ IsSpace(s[1]) THEN lstrip(Tail(s)) ELSE s

RECURSIVE rstrip(_)
rstrip(s) ==
    IF s # <<>> /\ IsSpace(s[Len(s)]) THEN rstrip(SubSeq(s, 1, Len(s) - 1)) ELSE s

\* str.strip()
strip(s) == rstrip(lstrip(s))

\* the character classes of the pattern of line 202
LeadClass == {"\"", "'", "[", "(", "{"}
TrailClass == {"\"", "'", "]", ")", "}"}

\* length of the longest prefix of s made of characters of class
RECURSIVE prefix_run(_, _)
prefix_run(s, class) ==
    IF s # <<>> /\ s[1] \in class THEN 1 + prefix_run(Tail(s), class) ELSE 0

\* length of the longest suffix of s made of characters of class
RECURSIVE suffix_run(_, _)
suffix_run(s, class) ==
    IF s # <<>> /\ s[Len(s)] \in class
    THEN 1 + suffix_run(SubSeq(s, 1, Len(s) - 1), class)
    ELSE 0

\* re.sub(r'^["\'\[\(\{]+|["\'\]\)\}]+\.?$', '', s), line 202: the first
\* alternative takes the leading run at position 0; in what follows, the
\* second takes the run of closing characters that ends the text, with one
\* final dot if there is one
regex_sub(s) ==
    LET lead == prefix_run(s, LeadClass)
        rest == SubSeq(s, lead + 1, Len(s))
        body == IF rest # <<>> /\ rest[Len(rest)] = "."
                THEN SubSeq(rest, 1, Len(rest) - 1)
                ELSE rest
        trail == suffix_run(body, TrailClass)
    IN  IF trail >= 1 THEN SubSeq(rest, 1, Len(body) - trail) ELSE rest

\* text[0].upper() + text[1:], lines 208-209
capitalize_first(s) ==
    IF Len(s) > 0 THEN <<UpperChar(s[1])>> \o Tail(s) ELSE s

\* the Python slice s[:stop]
slice_to(s, stop) ==
    IF stop >= 0
    THEN SubSeq(s, 1, Min(stop, Len(s)))
    ELSE SubSeq(s, 1, Max(Len(s) + stop, 0))

Ellipsis == <<".", ".", ".">>

\* lines 212-213
truncate(s, max_chars) ==
    IF Len(s) > max_chars
    THEN slice_to(s, max_chars - EllipsisLen) \o Ellipsis
    ELSE s

\* sanitize_text, lines 185-215
sanitize_text(text, max_chars) ==
    IF text = <<>>
    THEN <<>>
    ELSE truncate(
             capitalize_first(strip(regex_sub(strip(replace_underscore(text))))),
             max_chars)

(***************************************************************************)
(* Inputs of sanitize_text.                                                *)
(***************************************************************************)
MaxTextLen == 4
MaxCharsBound == 5

TextAlphabet == {"a", "_", " ", "\"", "(", ")", "."}

Texts == SeqsUpTo(TextAlphabet, MaxTextLen)

InitSanitize ==
    /\ templates = <<>>
    /\ keywords = <<>>
    /\ op = "idle"
    /\ arg \in [text : Texts, max_chars : 0..MaxCharsBound]
    /\ ret = NoCall

\* the pending call sanitize_text(text, max_chars)
SanitizeText ==
    /\ op = "idle"
    /\ op' = "sanitize_text"
    /\ ret' = [value |-> sanitize_text(arg.text, arg.max_chars),
               previous |-> arg.text, calls |-> 1]
    /\ UNCHANGED <<templates, keywords, arg>>

\* sanitize_text called on the value a previous call returned
SanitizeAgain ==
    /\ op = "sanitize_text"
    /\ ret.calls = 1
    /\ ret' = [value |-> sanitize_text(ret.value, arg.max_chars),
               previous |-> ret.value, calls |-> 2]
    /\ UNCHANGED <<templates, keywords, op, arg>>

NextSanitize == SanitizeText \/ SanitizeAgain

SpecSanitize == InitSanitize /\ [][NextSanitize]_vars

\* C10: sanitize_text is idempotent: sanitizing a sanitized text with the
\* same max_chars returns it unchanged.  Stated here for the max_chars that
\* leave room for the ellipsis.
C10_SanitizeIdempotent ==
    (op = "sanitize_text" /\ ret.calls = 2 /\ arg.max_chars >= EllipsisLen) =>
        ret.value = ret.previous


(***************************************************************************)
(* fill_template_slots.  A dict of slot values is a function from slot     *)
(* keys to strs; the outcome is [raised, slot, values]: raised is "none"   *)
(* when the call returns `values`, else the exception, `slot` being the    *)
(* slot key a ValueError names.                                            *)
(***************************************************************************)
EmptyDict == [k \in {} |-> <<>>]

\* d with d[key] = value
Put(d, key, value) ==
    [k \in (DOMAIN d) \cup {key} |-> IF k = key THEN value ELSE d[k]]

\* d.get(key, "")
GetSlot(d, key) == IF key \in DOMAIN d THEN d[key] ELSE <<>>

Str_Me == <<"M", "e">>
Str_ExistingChoice == <<"E", "x", "i", "s", "t", "i", "n", "g", " ", "c", "h", "o", "i", "c", "e">>
Str_BoringStuff == <<"B", "o", "r", "i", "n", "g", " ", "s", "t", "u", "f", "f">>
Str_ChoiceA == <<"C", "h", "o", "i", "c", "e", " ", "A">>
Str_Competitors == <<"C", "o", "m", "p", "e", "t", "i", "t", "o", "r", "s">>
Str_Level == <<"L", "e", "v", "e", "l", " ">>
Digit == <<"1", "2", "3", "4">>

\* the branch of expanding_brain for level i, lines 268-272
level_value(concept, i) ==
    IF Len(concept.keywords) >= i
    THEN concept.keywords[i]
    ELSE IF i = 4 THEN concept.caption ELSE Str_Level \o <<Digit[i]>>

\* the if/elif ladder of lines 234-293: the slot_values it leaves, or the
\* IndexError of template.text_slots[2]
fallback_slots(template, concept) ==
    LET kw == concept.keywords
        n == Len(kw)
    IN  CASE template.id = "distracted_boyfriend" ->
                 IF n >= 3
                 THEN [raised |-> "none",
                       values |-> [k \in {"subject", "old_option", "new_option"} |->
                                      CASE k = "subject" -> kw[1]
                                        [] k = "old_option" -> kw[2]
                                        [] OTHER -> kw[3]]]
                 ELSE IF Len(template.text_slots) < 3
                 THEN [raised |-> "IndexError", values |-> EmptyDict]
                 ELSE [raised |-> "none",
                       values |-> [k \in {"subject", "old_option", "new_option"} |->
                                      CASE k = "subject" ->
                                               IF n > 0 THEN kw[1] ELSE Str_Me
                                        [] k = "old_option" ->
                                               IF n > 1 THEN kw[2] ELSE Str_ExistingChoice
                                        [] OTHER ->
                                               slice_to(concept.caption,
                                                        template.text_slots[3].max_chars)]]
          [] template.id = "drake_hotline" ->
                 [raised |-> "none",
                  values |-> [k \in {"nope", "yep"} |->
                                 IF n >= 2
                                 THEN (IF k = "nope" THEN kw[1] ELSE kw[2])
                                 ELSE (IF k = "nope" THEN Str_BoringStuff
                                       ELSE concept.caption)]]
          [] template.id = "two_buttons" ->
                 [raised |-> "none",
                  values |-> [k \in {"option_1", "option_2"} |->
                                 IF n >= 2
                                 THEN (IF k = "option_1" THEN kw[1] ELSE kw[2])
                                 ELSE (IF k = "option_1" THEN Str_ChoiceA
                                       ELSE concept.caption)]]
          [] template.id = "expanding_brain" ->
                 [raised |-> "none",
                  values |-> [k \in {"level_1", "level_2", "level_3", "level_4"} |->
                                 CASE k = "level_1" -> level_value(concept, 1)
                                   [] k = "level_2" -> level_value(concept, 2)
                                   [] k = "level_3" -> level_value(concept, 3)
                                   [] OTHER -> level_value(concept, 4)]]
          [] template.id = "change_my_mind" ->
                 [raised |-> "none", values |-> Put(EmptyDict, "statement", concept.caption)]
          [] template.id = "monkey_puppet" ->
                 [raised |-> "none", values |-> Put(EmptyDict, "reaction", concept.caption)]
          [] template.id = "hands_up_opinion" ->
                 [raised |-> "none", values |-> Put(EmptyDict, "opinion", concept.caption)]
          [] template.id = "woman_yelling_cat" ->
                 [raised |-> "none",
                  values |-> [k \in {"yelling_woman", "confused_cat"} |->
                                 IF n >= 2
                                 THEN (IF k = "yelling_woman" THEN kw[1] ELSE kw[2])
                                 ELSE (IF k = "yelling_woman" THEN Str_Competitors
                                       ELSE concept.caption)]]
          [] OTHER -> [raised |-> "none", values |-> EmptyDict]

\* a line 299 that lets every value through
is_missing_never(val) == FALSE

\* the test of line 299 on the stripped value
is_missing(val) == val = <<>>

\* a final loop that stores the stripped value as it is
RECURSIVE final_check_unsanitized(_, _, _, _)
final_check_unsanitized(template, slot_values, i, final_values) ==
    IF i > Len(template.text_slots)
    THEN [raised |-> "none", slot |-> "", values |-> final_values]
    ELSE LET slot == template.text_slots[i]
             val == strip(GetSlot(slot_values, slot.key))
         IN  IF val = <<>>
             THEN [raised |-> "ValueError", slot |-> slot.key, values |-> EmptyDict]
             ELSE final_check_unsanitized(template, slot_values, i + 1,
                                          Put(final_values, slot.key, val))

\* the final loop of lines 296-307 from slot i on
RECURSIVE final_check(_, _, _, _)
final_check(template, slot_values, i, final_values) ==
    IF i > Len(template.text_slots)
    THEN [raised |-> "none", slot |-> "", values |-> final_values]
    ELSE LET slot == template.text_slots[i]
             val == strip(GetSlot(slot_values, slot.key))
         IN  IF is_missing(val)
             THEN [raised |-> "ValueError", slot |-> slot.key, values |-> EmptyDict]
             ELSE final_check(template, slot_values, i + 1,
                              Put(final_values, slot.key,
                                  sanitize_text(val, slot.max_chars)))

\* the test of lines 224-227: upstream slots are used when they cover the
\* template's slot keys
uses_upstream_slots(template, concept) ==
    /\ DOMAIN concept.template_slots # {}
    /\ {template.text_slots[i].key : i \in DOMAIN template.text_slots}
           \subseteq DOMAIN concept.template_slots

\* a fill_template_slots without lines 223-229
fill_always_fallback(template, concept) ==
    LET fallback == fallback_slots(template, concept)
    IN  IF fallback.raised # "none"
        THEN [raised |-> fallback.raised, slot |-> "", values |-> EmptyDict]
        ELSE final_check(template, fallback.values, 1, EmptyDict)

\* fill_template_slots, lines 217-307
fill_template_slots(template, concept) ==
    IF uses_upstream_slots(template, concept)
    THEN [raised |-> "none", slot |-> "",
          values |-> [k \in {template.text_slots[i].key : i \in DOMAIN template.text_slots}
                         |-> concept.template_slots[k]]]
    ELSE LET fallback == fallback_slots(template, concept)
         IN  IF fallback.raised # "none"
             THEN [raised |-> fallback.raised, slot |-> "", values |-> EmptyDict]
             ELSE final_check(template, fallback.values, 1, EmptyDict)


(***************************************************************************)
(* Inputs of fill_template_slots.                                          *)
(***************************************************************************)
MaxFillKeywords == 4

\* the slot keys each branch of the ladder expects (its "Expects:" comments),
\* a template without a branch (with one slot and with none), and a
\* distracted_boyfriend short of a slot
DeclaredSlotKeys ==
    { [id |-> "distracted_boyfriend", keys |-> <<"subject", "old_option", "new_option">>],
      [id |-> "distracted_boyfriend", keys |-> <<"subject", "new_option">>],
      [id |-> "drake_hotline", keys |-> <<"nope", "yep">>],
      [id |-> "two_buttons", keys |-> <<"option_1", "option_2">>],
      [id |-> "expanding_brain", keys |-> <<"level_1", "level_2", "level_3", "level_4">>],
      [id |-> "change_my_mind", keys |-> <<"statement">>],
      [id |-> "monkey_puppet", keys |-> <<"reaction">>],
      [id |-> "hands_up_opinion", keys |-> <<"opinion">>],
      [id |-> "woman_yelling_cat", keys |-> <<"yelling_woman", "confused_cat">>],
      [id |-> "surprised_pikachu", keys |-> <<"text">>],
      [id |-> "surprised_pikachu", keys |-> <<>>] }

FillTemplatePool ==
    { [key |-> d.id, id |-> d.id,
       text_slots |-> [i \in DOMAIN d.keys |-> [key |-> d.keys[i], max_chars |-> m]]] :
          d \in DeclaredSlotKeys, m \in 0..MaxCharsBound }

AllSlotKeys == UNION {Range(d.keys) : d \in DeclaredSlotKeys}

Str_long == <<"a", "a", "a", "a", "a", "a", "a">>

FillKeywordPool == {<<"a", "_", "b">>, <<"\"">>, <<" ">>}

FillCaptionPool == {<<" ">>, <<"(", " ", "\"", "a">>, Str_long}

UpstreamSlotsPool ==
    { EmptyDict,
      [k \in AllSlotKeys |-> Str_long],
      [k \in AllSlotKeys |-> <<>>],
      [k \in {"subject"} |-> Str_a] }

FillConcepts ==
    [keywords : SeqsUpTo(FillKeywordPool, MaxFillKeywords),
     caption : FillCaptionPool,
     template_slots : UpstreamSlotsPool]

InitFill ==
    /\ templates \in Catalogs(FillTemplatePool, 1)
    /\ Len(templates) = 1
    /\ keywords = <<>>
    /\ op = "idle"
    /\ arg \in FillConcepts
    /\ ret = NoCall

\* the pending request calls fill_template_slots(template, concept) for the
\* template it matched
FillTemplateSlots ==
    /\ op = "idle"
    /\ op' = "fill_template_slots"
    /\ ret' = fill_template_slots(templates[1], arg)
    /\ UNCHANGED <<templates, keywords, arg>>

NextFill == FillTemplateSlots

SpecFill == InitFill /\ [][NextFill]_vars

(***************************************************************************)
(* Claims about fill_template_slots.                                       *)
(***************************************************************************)
Filled == op = "fill_template_slots" /\ ret.raised = "none"

\* C8: whenever fill_template_slots returns a result, from the concept's
\* template_slots or from the fallback, every returned slot value is no
\* longer than the max_chars of its slot, for every max_chars >= 0.
C8_ValuesWithinMaxChars ==
    Filled =>
        \A i \in DOMAIN templates[1].text_slots :
            LET slot == templates[1].text_slots[i]
            IN  slot.key \in DOMAIN ret.values =>
                    Len(ret.values[slot.key]) <= slot.max_chars

\* C9: whenever fill_template_slots returns, the result has one entry for
\* every slot key of the template and every value is non-empty; a failure for
\* an empty slot is a ValueError naming a slot of the template.
C9_ReturnedSlotsNonEmpty ==
    /\ Filled =>
           /\ DOMAIN ret.values = {templates[1].text_slots[i].key :
                                      i \in DOMAIN templates[1].text_slots}
           /\ \A k \in DOMAIN ret.values : ret.values[k] # <<>>
    /\ (op = "fill_template_slots" /\ ret.raised = "ValueError") =>
           \E i \in DOMAIN templates[1].text_slots :
               templates[1].text_slots[i].key = ret.slot

SlotKeys == {templates[1].text_slots[i].key : i \in DOMAIN templates[1].text_slots}

Covering == DOMAIN arg.template_slots # {} /\ SlotKeys \subseteq DOMAIN arg.template_slots

WithoutUpstream == [arg EXCEPT !.template_slots = EmptyDict]

\* C12: when the concept's non-empty template_slots cover the template's slot
\* keys, fill_template_slots returns exactly the template_slots value of every
\* slot and no fallback value; otherwise the outcome is the one of the
\* fallback ladder, the same as for a concept that carries no template_slots.
C12_UpstreamElseFallback ==
    op = "fill_template_slots" =>
        IF Covering
        THEN /\ ret.raised = "none"
             /\ DOMAIN ret.values = SlotKeys
             /\ \A k \in SlotKeys : ret.values[k] = arg.template_slots[k]
        ELSE ret = fill_template_slots(templates[1], WithoutUpstream)

C12_Witness ==
    /\ op = "fill_template_slots"
    /\ Covering
    /\ templates[1].id = "two_buttons"
    /\ Len(arg.keywords) >= 2
    /\ ret.values # fill_template_slots(templates[1], WithoutUpstream).values

\* the ids the ladder of lines 234-293 has a branch for
FallbackIds ==
    {"distracted_boyfriend", "drake_hotline", "two_buttons", "expanding_brain",
     "change_my_mind", "monkey_puppet", "hands_up_opinion", "woman_yelling_cat"}

NoStrategyCase ==
    /\ op = "fill_template_slots"
    /\ templates[1].id \notin FallbackIds
    /\ Len(templates[1].text_slots) >= 1
    /\ ~Covering

\* C13: for a template with at least one slot whose id has no fallback branch
\* and a concept whose template_slots do not cover the slots,
\* fill_template_slots raises ValueError and returns no slot values.
C13_NoStrategyRaises ==
    NoStrategyCase => ret.raised = "ValueError" /\ ret.values = EmptyDict

C13_Witness ==
    /\ NoStrategyCase
    /\ DOMAIN arg.template_slots # {}
    /\ arg.keywords # <<>>
    /\ ret.raised = "ValueError"

TwoButtonsCase ==
    /\ op = "fill_template_slots"
    /\ templates[1].id = "two_buttons"
    /\ ~Covering

Option1Source == IF Len(arg.keywords) >= 2 THEN arg.keywords[1] ELSE Str_ChoiceA

Option2Source == IF Len(arg.keywords) >= 2 THEN arg.keywords[2] ELSE arg.caption

TwoButtonsValues ==
    /\ ret.raised = "none"
    /\ ret.values["option_1"] =
           sanitize_text(Option1Source, templates[1].text_slots[1].max_chars)
    /\ ret.values["option_2"] =
           sanitize_text(Option2Source, templates[1].text_slots[2].max_chars)

\* C14 as stated: for two_buttons without covering template_slots,
\* fill_template_slots returns option_1 and option_2 as the sanitized first
\* two keywords, or as the sanitized placeholder and caption when there are
\* fewer than two keywords.
C14_TwoButtonsAsClaimed == TwoButtonsCase => TwoButtonsValues

\* C14 amended: the same values are returned when both sources are non-blank;
\* when a source is blank (empty after strip) the call raises ValueError.
C14_TwoButtonsAmended ==
    TwoButtonsCase =>
        IF strip(Option1Source) = <<>> \/ strip(Option2Source) = <<>>
        THEN ret.raised = "ValueError" /\ ret.values = EmptyDict
        ELSE TwoButtonsValues

C14_Witness ==
    /\ TwoButtonsCase
    /\ Len(arg.keywords) >= 2
    /\ ret.raised = "none"
    /\ ret.values["option_1"] # arg.keywords[1]
    /\ ret.values["option_1"] # <<>>

(***************************************************************************)
(* LlamaService.generate_meme_concept, src/backend/app/services/llama.py   *)
(* lines 360-494, with LlamaOutput of src/backend/app/schemas/meme.py.     *)
(* A JSON object is a function from its keys; text_position, an enum, is a *)
(* TLA+ string.                                                            *)
(***************************************************************************)
TopicLimit == 100
DescriptionPreview == 30

Str_FallbackPrefix ==
    <<"A", " ", "f", "u", "n", "n", "y", " ", "a", "n", "d", " ", "r", "e", "l", "a", "t", "a", "b", "l", "e", " ", "m", "e", "m", "e", " ", "s", "c", "e", "n", "e", " ", "r", "e", "l", "a", "t", "e", "d", " ", "t", "o", ":", " ">>

Str_FallbackSuffix ==
    <<".", " ", "H", "i", "g", "h", " ", "q", "u", "a", "l", "i", "t", "y", ",", " ", "v", "i", "b", "r", "a", "n", "t", ",", " ", "m", "e", "m", "e", " ", "s", "t", "y", "l", "e", ".">>

Str_MemeAbout == <<"M", "e", "m", "e", " ", "a", "b", "o", "u", "t", " ">>
Str_DefaultNegative == <<"t", "e", "x", "t", ",", " ", "w", "a", "t", "e", "r", "m", "a", "r", "k", ",", " ", "b", "l", "u", "r", "r", "y">>

\* _get_fallback_image_prompt, lines 197-211
get_fallback_image_prompt(company_description, caption) ==
    LET base_topic == IF caption # <<>> THEN caption ELSE company_description
        topic == IF Len(base_topic) > TopicLimit
                 THEN slice_to(base_topic, TopicLimit - EllipsisLen) \o Ellipsis
                 ELSE base_topic
    IN  Str_FallbackPrefix \o topic \o Str_FallbackSuffix

\* lines 452-461: the image_prompt after the resilience step
resilient_image_prompt(json_data, company_description) ==
    LET image_prompt == GetSlot(json_data, "image_prompt")
    IN  IF image_prompt = <<>> \/ strip(image_prompt) = <<>>
        THEN get_fallback_image_prompt(company_description, GetSlot(json_data, "caption"))
        ELSE image_prompt

\* if key not in json_data: json_data[key] = value
SetDefault(d, key, value) == IF key \in DOMAIN d THEN d ELSE Put(d, key, value)

\* lines 452-478: json_data as it reaches the validation
backfill(json_data, company_description) ==
    LET d1 == Put(json_data, "image_prompt",
                  resilient_image_prompt(json_data, company_description))
        d2 == SetDefault(d1, "negative_prompt", Str_DefaultNegative)
        d3 == SetDefault(d2, "text_position", "bottom")
        d4 == SetDefault(d3, "caption",
                         Str_MemeAbout \o slice_to(company_description, DescriptionPreview))
        d5 == SetDefault(d4, "keywords", <<>>)
        d6 == SetDefault(d5, "use_cases", <<>>)
        d7 == SetDefault(d6, "intent", <<>>)
    IN  SetDefault(d7, "template_slots", EmptyDict)

\* the fields LlamaOutput declares, schemas/meme.py lines 127-146
LlamaOutputFields == {"image_prompt", "negative_prompt", "caption", "text_position"}

\* LlamaOutput(**data) validates: every declared field is present,
\* image_prompt and caption have min_length 1, text_position is a
\* TextPosition, and Config.extra = "forbid" rejects every other key
LlamaOutput_accepts(data) ==
    /\ DOMAIN data \subseteq LlamaOutputFields
    /\ LlamaOutputFields \subseteq DOMAIN data
    /\ Len(data["image_prompt"]) >= 1
    /\ Len(data["caption"]) >= 1
    /\ data["text_position"] \in {"top", "bottom"}

\* generate_meme_concept, lines 381-494, for each outcome of the call to the
\* upstream API and of _extract_json_from_response
generate_meme_concept(company_description, upstream) ==
    CASE upstream.outcome \in {"url_unset", "connect_error", "timeout", "http_error"} ->
             [raised |-> "LlamaConnectionError", value |-> EmptyDict]
      [] upstream.outcome \in {"bad_status", "no_json"} ->
             [raised |-> "LlamaResponseError", value |-> EmptyDict]
      [] OTHER ->
             LET json_data == backfill(upstream.json_data, company_description)
             IN  IF LlamaOutput_accepts(json_data)
                 THEN [raised |-> "none", value |-> json_data]
                 ELSE [raised |-> "LlamaValidationError", value |-> EmptyDict]

(***************************************************************************)
(* Inputs of generate_meme_concept.                                        *)
(***************************************************************************)
\* the string of n characters ch
Rep(ch, n) == [i \in 1..n |-> ch]

\* d restricted to the keys K
Restrict(d, K) == [k \in K |-> d[k]]

ConceptDescriptions ==
    {Rep("d", 10), Rep("d", DescriptionPreview + 1), Rep("d", TopicLimit + 1)}

\* the values the upstream reply may carry under each key
UpstreamValues ==
    [image_prompt : {<<>>, <<" ">>, <<"p">>},
     negative_prompt : {<<"n">>},
     caption : {<<>>, <<"c">>, Rep("c", TopicLimit + 1)},
     text_position : {"top", "middle"},
     keywords : {<<Str_a>>}]

\* the outcomes of the call: a failure before a JSON object is obtained, or
\* the object _extract_json_from_response returns, with any of its keys absent
UpstreamReplies ==
    {[outcome |-> o, json_data |-> EmptyDict] :
        o \in {"url_unset", "connect_error", "timeout", "http_error", "bad_status", "no_json"}}
    \cup
    {[outcome |-> "json", json_data |-> Restrict(r, K)] :
        r \in UpstreamValues,
        K \in SUBSET {"image_prompt", "negative_prompt", "caption", "text_position", "keywords"}}

InitGenerate ==
    /\ templates = <<>>
    /\ keywords = <<>>
    /\ op = "idle"
    /\ arg \in [company_description : ConceptDescriptions, upstream : UpstreamReplies]
    /\ ret = NoCall

GenerateMemeConcept ==
    /\ op = "idle"
    /\ op' = "generate_meme_concept"
    /\ ret' = generate_meme_concept(arg.company_description, arg.upstream)
    /\ UNCHANGED <<templates, keywords, arg>>

NextGenerate == GenerateMemeConcept

SpecGenerate == InitGenerate /\ [][NextGenerate]_vars

(***************************************************************************)
(* Claims about generate_meme_concept.                                     *)
(***************************************************************************)
\* the reply has an empty, blank or missing image_prompt and a valid
\* negative_prompt, caption and text_position
ResilienceCase ==
    /\ op = "generate_meme_concept"
    /\ arg.upstream.outcome = "json"
    /\ LET j == arg.upstream.json_data
       IN  /\ strip(GetSlot(j, "image_prompt")) = <<>>
           /\ {"negative_prompt", "caption", "text_position"} \subseteq DOMAIN j
           /\ j["caption"] # <<>>
           /\ j["text_position"] \in {"top", "bottom"}

\* C18: for a reply whose image_prompt is empty, blank or missing and whose
\* other three fields are valid, generate_meme_concept does not raise and
\* returns a concept whose image_prompt is the synthesized fallback built from
\* the caption, the other fields being kept.
C18_FallbackConceptReturned ==
    ResilienceCase =>
        /\ ret.raised = "none"
        /\ ret.value["image_prompt"] =
               get_fallback_image_prompt(arg.company_description,
                                         arg.upstream.json_data["caption"])
        /\ ret.value["image_prompt"] # <<>>
        /\ ret.value["caption"] = arg.upstream.json_data["caption"]

(***************************************************************************)
(* The generate_meme route, src/backend/app/routes/meme.py lines 94-389,   *)
(* for a process without STABLE_DIFFUSION_API_KEY (the LLaMA/Colab flow).  *)
(* op is the position of the request in the route, arg the request and the *)
(* replies the upstream services will give, ret the locals of the handler. *)
(* A template carries image_exists: whether its base image file is there.  *)
(***************************************************************************)
CaptionMaxChars == 150
FallbackSlotMaxChars == 50

Str_MemeFor == <<"M", "e", "m", "e", " ", "f", "o", "r", " ">>

SlotKeysOf(template) == {template.text_slots[i].key : i \in DOMAIN template.text_slots}

\* LlamaService.generate_template_slots, llama.py lines 496-549: every failure
\* of the call or of the extraction is raised as LlamaServiceError; a missing
\* slot is filled with the empty string (line 543)
generate_template_slots(template, light) ==
    IF light.outcome # "json" \/ ~light.slots_is_mapping
    THEN [raised |-> "LlamaServiceError", slots |-> EmptyDict, caption |-> <<>>]
    ELSE LET slots == light.template_slots
         IN  [raised |-> "none",
              slots |-> [k \in SlotKeysOf(template) |-> GetSlot(slots, k)],
              caption |-> IF light.has_caption THEN light.caption
                          ELSE Str_MemeFor \o template.name]

\* next((s.max_chars for s in text_slots if s.key == key), 50), meme.py line 203
slot_max_chars(template, key) ==
    IF \E i \in DOMAIN template.text_slots : template.text_slots[i].key = key
    THEN LET first == CHOOSE i \in DOMAIN template.text_slots :
                          /\ template.text_slots[i].key = key
                          /\ \A j \in 1..(i - 1) : template.text_slots[j].key # key
         IN  template.text_slots[first].max_chars
    ELSE FallbackSlotMaxChars

\* the comprehension of meme.py lines 202-205
sanitize_slots(template, slot_values) ==
    [k \in DOMAIN slot_values |->
        sanitize_text(slot_values[k], slot_max_chars(template, k))]

\* render_template, templates.py lines 309-360: the text drawn at each slot,
\* or the FileNotFoundError of line 315
render_template(template, slot_values) ==
    IF ~template.image_exists
    THEN [raised |-> "FileNotFoundError", drawn |-> EmptyDict]
    ELSE [raised |-> "none",
          drawn |-> [k \in SlotKeysOf(template) |-> GetSlot(slot_values, k)]]

\* the locals of the handler that the steps hand on
Locals(status, error, path, drawn, caption, calls) ==
    [status |-> status, error |-> error, path |-> path, drawn |-> drawn,
     caption |-> caption, calls |-> calls]

(***************************************************************************)
(* The Stable Diffusion path of the route, meme.py 131-176, and            *)
(* StableDiffusionService.generate_meme, stable_diffusion.py 427-450.  The *)
(* environment says whether STABLE_DIFFUSION_API_KEY is set, the text of   *)
(* the exception an API call or the overlay raises (none: the empty        *)
(* text), the enhanced prompt, the b64_json of the image and the caption   *)
(* the chat model writes.  An optional text is <<>> for None and <<s>> for *)
(* the str s.                                                              *)
(***************************************************************************)
NoText == <<>>

Some(s) == <<s>>

\* bool(x) of an Optional[str]
Truthy(optional) == optional # NoText /\ optional[1] # <<>>

Str_DataUrl == <<"d", "a", "t", "a", ":", "i", "m", "a", "g", "e", "/", "p", "n", "g", ";", "b", "a", "s", "e", "6", "4", ",">>

Str_Connect == <<"c", "o", "n", "n", "e", "c", "t">>

Str_Auth == <<"a", "u", "t", "h">>

Str_ApiKey == <<"a", "p", "i", "_", "k", "e", "y">>

Str_Rate == <<"r", "a", "t", "e">>

Str_EmptyEnhanced == <<"E", "m", "p", "t", "y", " ", "e", "n", "h", "a", "n", "c", "e", "d", " ", "p", "r", "o", "m", "p", "t", " ", "f", "r", "o", "m", " ", "A", "P", "I">>

Str_NoImageData == <<"N", "o", " ", "i", "m", "a", "g", "e", " ", "d", "a", "t", "a", " ", "i", "n", " ", "A", "P", "I", " ", "r", "e", "s", "p", "o", "n", "s", "e">>

Str_Meme == <<"M", "e", "m", "e">>

\* the start of the base64 text of every PNG file
Str_PngBase64 == <<"i", "V", "B", "O", "R", "w", "0", "K", "G", "g", "o">>

\* image_to_base64, templates.py lines 362-366
image_to_base64(drawn) == Str_PngBase64

\* the locals of a 200 response with the image fields of the response
WithImage(locals, image_url, image_base64) ==
    locals @@ [image_url |-> image_url, image_base64 |-> image_base64]

\* stable_diffusion.py lines 440-442
is_connection_text(err) ==
    \/ Contains(Str_Connect, lower(err))
    \/ Contains(Str_Auth, lower(err))
    \/ Contains(Str_ApiKey, lower(err))
    \/ Contains(Str_Rate, lower(err))

\* the text of the first exception of lines 433-438, <<>> when none is
\* raised: an API or overlay failure, an empty enhanced prompt (line 270),
\* no image data (lines 292-293)
sd_failure(sd) ==
    IF sd.error # <<>> THEN sd.error
    ELSE IF strip(sd.enhanced) = <<>> THEN Str_EmptyEnhanced
    ELSE IF sd.b64_json = <<>> THEN Str_NoImageData
    ELSE <<>>

\* _generate_caption, lines 307-308
sd_caption(content) ==
    LET stripped == IF strip(content) = <<>> THEN Str_Meme ELSE strip(content)
    IN  SubSeq(stripped, 1, Min(Len(stripped), CaptionMaxChars))

\* _overlay_caption, lines 346-358 and 418-421: the image as it came when
\* it cannot be decoded, else the PNG of the image with the caption drawn
sd_overlay(image_base64, caption, sd) ==
    IF caption = <<>> \/ ~sd.decodable THEN image_base64
    ELSE Str_DataUrl \o Str_PngBase64

\* StableDiffusionService.generate_meme, lines 427-450
sd_generate_meme(company_description, sd) ==
    LET err == sd_failure(sd)
        caption == sd_caption(sd.caption)
    IN  IF err # <<>>
        THEN [raised |-> IF is_connection_text(err)
                         THEN "StableDiffusionConnectionError"
                         ELSE "StableDiffusionResponseError",
              image_url |-> NoText, image_base64 |-> NoText, caption |-> <<>>]
        ELSE [raised |-> "none",
              image_url |-> NoText,
              image_base64 |->
                  Some(sd_overlay(Str_DataUrl \o sd.b64_json, caption, sd)),
              caption |-> caption]

\* the status and error code of the handlers of meme.py lines 144-176
sd_error_status(raised) ==
    IF raised = "StableDiffusionConnectionError" THEN 503 ELSE 502

sd_error_code(raised) ==
    IF raised = "StableDiffusionConnectionError"
    THEN "stable_diffusion_connection_error"
    ELSE "stable_diffusion_response_error"

\* a Stable Diffusion path whose failures leave the request to the
\* LLaMA/Colab steps
StableDiffusionPathFallingThrough ==
    /\ op = "idle"
    /\ arg.sd.key_set
    /\ LET made == sd_generate_meme(arg.company_description, arg.sd)
           calls == <<"stable_diffusion.generate_meme">>
       IN  IF made.raised # "none"
           THEN /\ op' = "step1"
                /\ ret' = Locals(0, "", "none", EmptyDict, <<>>, calls)
           ELSE /\ op' = "returned"
                /\ ret' = WithImage(Locals(200, "", "stable_diffusion", EmptyDict,
                                           made.caption, calls),
                                    made.image_url, made.image_base64)
    /\ UNCHANGED <<templates, keywords, arg>>

\* meme.py lines 131-176: with the key set the request ends here
StableDiffusionPath ==
    /\ op = "idle"
    /\ arg.sd.key_set
    /\ LET made == sd_generate_meme(arg.company_description, arg.sd)
           calls == <<"stable_diffusion.generate_meme">>
       IN  IF made.raised # "none"
           THEN /\ op' = "raised"
                /\ ret' = Locals(sd_error_status(made.raised),
                                 sd_error_code(made.raised),
                                 "none", EmptyDict, <<>>, calls)
           ELSE /\ op' = "returned"
                /\ ret' = WithImage(Locals(200, "", "stable_diffusion", EmptyDict,
                                           made.caption, calls),
                                    made.image_url, made.image_base64)
    /\ UNCHANGED <<templates, keywords, arg>>

\* a route without step 0
Step0Skipped ==
    /\ op = "idle"
    /\ ~arg.sd.key_set
    /\ op' = "step1"
    /\ ret' = Locals(0, "", "none", EmptyDict, <<>>, <<>>)
    /\ UNCHANGED <<templates, keywords, arg>>

\* STEP 0, meme.py lines 181-227: the keyword-first attempt; it returns the
\* rendered template or leaves the request at step 1
Step0KeywordFirst ==
    /\ op = "idle"
    /\ ~arg.sd.key_set
    /\ LET m == match_templates_by_keywords(templates, keywords,
                                            arg.company_description, DefaultThreshold)
           matched == <<"match_templates_by_keywords">>
       IN  IF m.best_template = 0
           THEN /\ op' = "step1"
                /\ ret' = Locals(0, "", "none", EmptyDict, <<>>, matched)
           ELSE LET keyword_template == templates[m.best_template]
                    filled == generate_template_slots(keyword_template, arg.light)
                    called == Append(matched, "generate_template_slots")
                IN  IF filled.raised # "none"
                    THEN /\ op' = "step1"
                         /\ ret' = Locals(0, "", "none", EmptyDict, <<>>, called)
                    ELSE LET caption == sanitize_text(filled.caption, CaptionMaxChars)
                             sanitized_slots == sanitize_slots(keyword_template, filled.slots)
                             rendered == render_template(keyword_template, sanitized_slots)
                             drew == Append(called, "render_template")
                         IN  IF rendered.raised # "none"
                             THEN /\ op' = "step1"
                                  /\ ret' = Locals(0, "", "none", EmptyDict, <<>>, drew)
                             ELSE /\ op' = "returned"
                                  /\ ret' = WithImage(
                                         Locals(200, "", "keyword_template",
                                                rendered.drawn, caption, drew),
                                         NoText,
                                         Some(image_to_base64(rendered.drawn)))
    /\ UNCHANGED <<templates, keywords, arg>>

\* the status and error code the handlers of meme.py lines 242-293 give
llama_error_status(raised) == IF raised = "LlamaConnectionError" THEN 503 ELSE 502

llama_error_code(raised) ==
    CASE raised = "LlamaConnectionError" -> "llama_connection_error"
      [] raised = "LlamaResponseError" -> "llama_response_error"
      [] raised = "LlamaValidationError" -> "llama_validation_error"
      [] OTHER -> "llama_error"

\* STEP 1, meme.py lines 232-293: the concept is generated and the request
\* goes on to step 2, or the request ends with the error response of the
\* failure
Step1GenerateConcept ==
    /\ op = "step1"
    /\ LET concept == generate_meme_concept(arg.company_description, arg.upstream)
           calls == Append(ret.calls, "generate_meme_concept")
       IN  IF concept.raised # "none"
           THEN /\ op' = "raised"
                /\ ret' = Locals(llama_error_status(concept.raised),
                                 llama_error_code(concept.raised),
                                 "none", EmptyDict, <<>>, calls)
           ELSE /\ op' = "step2"
                /\ ret' = [Locals(0, "", "none", EmptyDict, <<>>, calls)
                              EXCEPT !.caption = concept.value["caption"]]
    /\ UNCHANGED <<templates, keywords, arg>>

(***************************************************************************)
(* Inputs of the route.                                                    *)
(***************************************************************************)
RouteSlots(keys, m) == [i \in DOMAIN keys |-> [key |-> keys[i], max_chars |-> m]]

RouteTemplatePool ==
    {[key |-> "t1", id |-> "two_buttons", name |-> <<"T">>,
      text_slots |-> RouteSlots(<<"option_1", "option_2">>, FallbackSlotMaxChars),
      image_exists |-> e] : e \in BOOLEAN}
    \cup
    {[key |-> "t2", id |-> "change_my_mind", name |-> <<"C">>,
      text_slots |-> RouteSlots(<<"statement">>, MaxCharsBound),
      image_exists |-> TRUE]}

\* keyword files whose strong keyword "a" reaches the default threshold
RouteKeywordFiles ==
    { <<>>,
      <<[key |-> "t1", groups |-> [strong |-> <<Str_a>>]]>>,
      <<[key |-> "t2", groups |-> [strong |-> <<Str_a>>]],
        [key |-> "t1", groups |-> [strong |-> <<Str_a>>]]>>,
      <<[key |-> "t9", groups |-> [strong |-> <<Str_a>>]],
        [key |-> "t1", groups |-> [strong |-> <<Str_a>>, negative |-> <<Str_b>>]]>> }

\* company_description has at least 10 characters (MemeGenerateRequest)
RouteDescriptions ==
    {<<"a">> \o Rep("z", 9), <<"a", "b">> \o Rep("z", 8), Rep("z", 10)}

LightSlotsPool ==
    { EmptyDict,
      [k \in {"option_1", "option_2", "statement"} |-> Str_long],
      [k \in {"option_1", "option_2", "statement"} |->
          IF k = "option_1" THEN <<"\"">> ELSE Str_a],
      [k \in {"option_1"} |-> Str_a] }

\* the outcomes of the light-mode call: a failure, a JSON value whose
\* template_slots is not a mapping, or an object with template_slots and
\* caption, each possibly absent (absent template_slots reads as {})
LightReplies ==
    {[outcome |-> o, slots_is_mapping |-> TRUE, template_slots |-> EmptyDict,
      has_caption |-> FALSE, caption |-> <<>>] :
        o \in {"connect_error", "bad_status", "no_json"}}
    \cup
    {[outcome |-> "json", slots_is_mapping |-> FALSE, template_slots |-> EmptyDict,
      has_caption |-> FALSE, caption |-> <<>>]}
    \cup
    {[outcome |-> "json", slots_is_mapping |-> TRUE, template_slots |-> s,
      has_caption |-> c # <<>>, caption |-> c] :
        s \in LightSlotsPool, c \in {<<>>, <<"c", "_", "d">>}}

RouteUpstreamReplies ==
    {r \in UpstreamReplies :
        \/ r.outcome # "json"
        \/ DOMAIN r.json_data = LlamaOutputFields
        \/ DOMAIN r.json_data = LlamaOutputFields \ {"image_prompt"}}

SdErrorTexts ==
    {<<>>, <<"C", "o", "n", "n", "e", "c", "t", "i", "o", "n", " ", "e", "r", "r", "o", "r", ".">>, <<"R", "a", "t", "e", " ", "l", "i", "m", "i", "t">>, <<"b", "o", "o", "m">>}

\* without the key the service is not used; with it, every outcome of the
\* pipeline
StableDiffusionReplies ==
    {[key_set |-> FALSE, error |-> <<>>, enhanced |-> <<>>, b64_json |-> <<>>,
      caption |-> <<>>, decodable |-> FALSE]}
    \cup
    [key_set : {TRUE}, error : SdErrorTexts, enhanced : {<<" ">>, <<"p">>},
     b64_json : {<<>>, <<"i">>}, caption : {<<>>, <<" ", "c", "_">>},
     decodable : BOOLEAN]

InitRoute ==
    /\ templates \in Catalogs(RouteTemplatePool, MaxTemplates)
    /\ keywords \in RouteKeywordFiles
    /\ op = "idle"
    /\ arg \in [company_description : RouteDescriptions,
                light : LightReplies,
                upstream : RouteUpstreamReplies,
                sd : StableDiffusionReplies]
    \* without LLAMA_API_URL the light-mode call has nothing to post to
    /\ arg.upstream.outcome = "url_unset" => arg.light.outcome = "connect_error"
    \* one LLaMA environment stands for all when the key is set
    /\ arg.sd.key_set => /\ arg.upstream.outcome = "url_unset"
                         /\ arg.light.outcome = "connect_error"
    /\ ret = NoCall

NextRoute == StableDiffusionPath \/ Step0KeywordFirst \/ Step1GenerateConcept

SpecRoute == InitRoute /\ [][NextRoute]_vars

(***************************************************************************)
(* Claims about the route.                                                 *)
(***************************************************************************)
TemplateImageReturned ==
    op = "returned" /\ ret.path \in {"keyword_template", "concept_template"}

\* C11: no response of the route carries a rendered template one of whose
\* slots was drawn with an empty value.
C11_NoEmptySlotRendered ==
    TemplateImageReturned => \A k \in DOMAIN ret.drawn : ret.drawn[k] # <<>>

\* C28: with STABLE_DIFFUSION_API_KEY set, a request that has left the
\* handler's entry has ended with 200, 502 or 503 (200 exactly when the
\* pipeline raised nothing), and the only service it called is the Stable
\* Diffusion pipeline: not the keyword matcher, LlamaService or ColabService.
C28_StableDiffusionEndsRequest ==
    (arg.sd.key_set /\ op # "idle") =>
        /\ op \in {"returned", "raised"}
        /\ ret.calls = <<"stable_diffusion.generate_meme">>
        /\ ret.status \in {200, 502, 503}
        /\ ret.status = 200 <=> sd_failure(arg.sd) = <<>>
        /\ ret.status = 200 <=> op = "returned"

\* the pipeline raised and the request ended with 502 although the catalog
\* holds a template the description's keywords select
C28_Witness ==
    /\ arg.sd.key_set
    /\ op = "raised"
    /\ ret.status = 502
    /\ match_templates_by_keywords(templates, keywords,
           arg.company_description, DefaultThreshold).best_template # 0

LlamaPath == ~arg.sd.key_set /\ op # "idle"

\* the keyword-first attempt on the request's description: the matcher
\* finds a template, the light-mode fill succeeds and the image is there
KeywordFirstSucceeds ==
    LET m == match_templates_by_keywords(templates, keywords,
                 arg.company_description, DefaultThreshold)
    IN  /\ m.best_template # 0
        /\ generate_template_slots(templates[m.best_template],
                                   arg.light).raised = "none"
        /\ templates[m.best_template].image_exists

ConceptCalls == {"generate_meme_concept", "colab.generate_meme"}

\* C25: on the LLaMA/Colab path the first call of a request is
\* match_templates_by_keywords; when the keyword-first attempt succeeds the
\* request has returned 200 with the rendered template and neither
\* generate_meme_concept nor Colab was called; when it does not, the request
\* is at step 1 and the call that follows the attempt is
\* generate_meme_concept.
C25_KeywordFirstBeforeConcept ==
    LlamaPath =>
        /\ Len(ret.calls) >= 1
        /\ ret.calls[1] = "match_templates_by_keywords"
        /\ \A i \in DOMAIN ret.calls :
              ret.calls[i] = "generate_meme_concept" =>
                  i > 1 /\ i = Len(ret.calls)
        /\ KeywordFirstSucceeds =>
              /\ op = "returned"
              /\ ret.status = 200
              /\ ret.path = "keyword_template"
              /\ Range(ret.calls) \cap ConceptCalls = {}
        /\ ~KeywordFirstSucceeds =>
              /\ op \in {"step1", "step2", "raised"}
              /\ op # "step1" =>
                    ret.calls[Len(ret.calls)] = "generate_meme_concept"
              /\ op = "step1" => Range(ret.calls) \cap ConceptCalls = {}

\* the keyword-first attempt returned the rendered template
C25_Witness ==
    /\ LlamaPath
    /\ op = "returned"
    /\ ret.path = "keyword_template"
    /\ ret.calls = <<"match_templates_by_keywords", "generate_template_slots",
                     "render_template">>

\* the LLaMA reply is an object with the four fields of a concept, each
\* valid
ConceptReplied ==
    /\ arg.upstream.outcome = "json"
    /\ DOMAIN arg.upstream.json_data = LlamaOutputFields
    /\ strip(arg.upstream.json_data["image_prompt"]) # <<>>
    /\ arg.upstream.json_data["caption"] # <<>>
    /\ arg.upstream.json_data["text_position"] = "top"

Str_null == <<"n", "u", "l", "l">>

\* the first position from i on that holds no whitespace
RECURSIVE skip_ws(_, _)
skip_ws(s, i) == IF i <= Len(s) /\ IsSpace(s[i]) THEN skip_ws(s, i + 1) ELSE i

ParseFail == [ok |-> FALSE, pos |-> 0, out |-> <<>>]

Parsed(pos, out) == [ok |-> TRUE, pos |-> pos, out |-> out]

\* a string token starting at i: up to the next double quote
parse_string(s, i) ==
    IF i > Len(s) \/ s[i] # "\""
    THEN ParseFail
    ELSE LET closing == {j \in (i + 1)..Len(s) : s[j] = "\""}
         IN  IF closing = {}
             THEN ParseFail
             ELSE LET j == CHOOSE c \in closing : \A d \in closing : c <= d
                  IN  Parsed(j + 1, SubSeq(s, i, j))

\* the end of the run of digits starting at i
RECURSIVE digits_end(_, _)
digits_end(s, i) == IF i <= Len(s) /\ s[i] = "1" THEN digits_end(s, i + 1) ELSE i

RECURSIVE parse_value(_, _)
RECURSIVE parse_members(_, _, _)
RECURSIVE parse_elements(_, _, _)

\* the members of an object from the key at i on; acc is the object so far
parse_members(s, i, acc) ==
    LET key == parse_string(s, i)
    IN  IF ~key.ok
        THEN ParseFail
        ELSE LET colon == skip_ws(s, key.pos)
             IN  IF colon > Len(s) \/ s[colon] # ":"
                 THEN ParseFail
                 ELSE LET val == parse_value(s, skip_ws(s, colon + 1))
                      IN  IF ~val.ok
                          THEN ParseFail
                          ELSE LET next == skip_ws(s, val.pos)
                                   member == acc \o key.out \o <<":">> \o val.out
                               IN  IF next > Len(s)
                                   THEN ParseFail
                                   ELSE IF s[next] = "}"
                                   THEN Parsed(next + 1, member \o <<"}">>)
                                   ELSE IF s[next] = ","
                                   THEN parse_members(s, skip_ws(s, next + 1),
                                                      member \o <<",">>)
                                   ELSE ParseFail

\* the elements of an array from the value at i on
parse_elements(s, i, acc) ==
    LET val == parse_value(s, i)
    IN  IF ~val.ok
        THEN ParseFail
        ELSE LET next == skip_ws(s, val.pos)
                 element == acc \o val.out
             IN  IF next > Len(s)
                 THEN ParseFail
                 ELSE IF s[next] = "]"
                 THEN Parsed(next + 1, element \o <<"]">>)
                 ELSE IF s[next] = ","
                 THEN parse_elements(s, skip_ws(s, next + 1), element \o <<",">>)
                 ELSE ParseFail

\* the JSON value starting at i
parse_value(s, i) ==
    IF i > Len(s)
    THEN ParseFail
    ELSE CASE s[i] = "{" ->
                  LET j == skip_ws(s, i + 1)
                  IN  IF j <= Len(s) /\ s[j] = "}"
                      THEN Parsed(j + 1, <<"{", "}">>)
                      ELSE parse_members(s, j, <<"{">>)
           [] s[i] = "[" ->
                  LET j == skip_ws(s, i + 1)
                  IN  IF j <= Len(s) /\ s[j] = "]"
                      THEN Parsed(j + 1, <<"[", "]">>)
                      ELSE parse_elements(s, j, <<"[">>)
           [] s[i] = "\"" -> parse_string(s, i)
           [] s[i] = "1" -> Parsed(digits_end(s, i), SubSeq(s, i, digits_end(s, i) - 1))
           [] s[i] = "n" ->
                  IF i + 3 <= Len(s) /\ SubSeq(s, i, i + 3) = Str_null
                  THEN Parsed(i + 4, Str_null)
                  ELSE ParseFail
           [] OTHER -> ParseFail

\* json.loads(s): the value, or JSONDecodeError
json_loads(s) ==
    LET val == parse_value(s, skip_ws(s, 1))
    IN  IF val.ok /\ skip_ws(s, val.pos) > Len(s)
        THEN [ok |-> TRUE, value |-> val.out]
        ELSE [ok |-> FALSE, value |-> <<>>]

(***************************************************************************)
(* LlamaService._extract_json_from_response, llama.py lines 240-299.       *)
(***************************************************************************)
ErrorTextLimit == 500
MaxBraceAttempts == 4

\* the backquote, which a TLA+ string cannot hold, is written "~"
Str_Fence == <<"~", "~", "~">>
Str_FenceJson == <<"~", "~", "~", "j", "s", "o", "n">>

\* pat occurs in s at position p
StartsAt(s, p, pat) ==
    p + Len(pat) - 1 <= Len(s) /\ SubSeq(s, p, p + Len(pat) - 1) = pat

\* the least element of a non-empty set of positions
Least(S) == CHOOSE p \in S : \A q \in S : p <= q

\* re.sub(opener + '\s*(.*?)\s*' + fence, group 1, text, DOTALL) of lines 260-261: every
\* fenced block, from the left, is replaced by its content without the
\* whitespace around it
RECURSIVE fence_sub(_, _)
fence_sub(text, opener) ==
    LET opens == {p \in 1..Len(text) :
                     /\ StartsAt(text, p, opener)
                     /\ \E r \in (p + Len(opener))..Len(text) : StartsAt(text, r, Str_Fence)}
    IN  IF opens = {}
        THEN text
        ELSE LET p == Least(opens)
                 q == skip_ws(text, p + Len(opener))
                 r == Least({c \in q..Len(text) : StartsAt(text, c, Str_Fence)})
             IN  SubSeq(text, 1, p - 1)
                 \o rstrip(SubSeq(text, q, r - 1))
                 \o fence_sub(SubSeq(text, r + Len(Str_Fence), Len(text)), opener)

\* lines 257-262
clean_response(response_text) ==
    strip(fence_sub(fence_sub(strip(response_text), Str_FenceJson), Str_Fence))

\* s.count(ch)
count(s, ch) == Cardinality({i \in DOMAIN s : s[i] = ch})

\* re.search('({.*})', text, DOTALL), lines 274-275: from the first opening
\* brace to the last closing brace after it, or no match (the empty string)
search_braces(text) ==
    LET opening == {i \in DOMAIN text : text[i] = "{"}
    IN  IF opening = {}
        THEN <<>>
        ELSE LET p == Least(opening)
                 closing == {i \in (p + 1)..Len(text) : text[i] = "}"}
             IN  IF closing = {}
                 THEN <<>>
                 ELSE SubSeq(text, p, CHOOSE r \in closing : \A c \in closing : c <= r)

\* lines 280-281
balance_braces(content) ==
    IF count(content, "{") > count(content, "}")
    THEN content \o Rep("}", count(content, "{") - count(content, "}"))
    ELSE content

\* lines 276-284: the value parsed from the braces found, if any
pattern_parse(text) ==
    LET content == search_braces(text)
    IN  IF content = <<>>
        THEN [ok |-> FALSE, value |-> <<>>]
        ELSE json_loads(balance_braces(content))

\* lines 288-294: the first of text + '}' * i, i = 1..4, that parses
completion_parse(text) ==
    LET attempts == {i \in 1..MaxBraceAttempts : json_loads(text \o Rep("}", i)).ok}
    IN  IF text # <<>> /\ text[1] = "{" /\ text[Len(text)] # "}" /\ attempts # {}
        THEN json_loads(text \o Rep("}", Least(attempts)))
        ELSE [ok |-> FALSE, value |-> <<>>]

Extracted(value, strategy) ==
    [raised |-> "none", value |-> value, strategy |-> strategy, carried |-> <<>>]

\* _extract_json_from_response: the value returned and the strategy that
\* gave it, or LlamaResponseError with the part of the text its message
\* carries
extract_json_from_response(response_text) ==
    IF response_text = <<>>
    THEN [raised |-> "LlamaResponseError", value |-> <<>>, strategy |-> "none",
          carried |-> <<>>]
    ELSE LET text == clean_response(response_text)
         IN  IF json_loads(text).ok
             THEN Extracted(json_loads(text).value, "direct")
             ELSE IF pattern_parse(text).ok
             THEN Extracted(pattern_parse(text).value, "pattern")
             ELSE IF completion_parse(text).ok
             THEN Extracted(completion_parse(text).value, "completion")
             ELSE [raised |-> "LlamaResponseError", value |-> <<>>, strategy |-> "none",
                   carried |-> slice_to(response_text, ErrorTextLimit)]

(***************************************************************************)
(* Inputs of _extract_json_from_response.                                  *)
(***************************************************************************)
MaxJsonLen == 4

JsonAlphabet == {"{", "}", "\"", "a", ":", "1", "[", "]"}

\* well-formed JSON objects: flat, empty, nested, with braces or fences
\* inside string values, with whitespace between the tokens
JsonObjects ==
    { <<"{", "\"", "a", "\"", ":", "1", "}">>,
      <<"{", "}">>,
      <<"{", "\"", "a", "\"", ":", "{", "\"", "a", "\"", ":", "1", "}", "}">>,
      <<"{", "\"", "a", "\"", ":", "\"", "}", "\"", "}">>,
      <<"{", "\"", "a", "\"", ":", "\"", "{", "\"", "}">>,
      <<"{", "\"", "a", "\"", ":", "{", "\"", "a", "\"", ":", "\"", "}", "\"", "}", "}">>,
      <<"{", "\"", "a", "\"", ":", "\"", "~", "~", "~", "1", "~", "~", "~", "\"", "}">>,
      <<"{", " ", "\"", "a", "\"", " ", ":", " ", "[", "1", ",", " ", "n", "u", "l", "l", "]", " ", "}">> }

\* the text around the object: nothing, whitespace, prose
Surroundings ==
    { [pre |-> <<>>, post |-> <<>>],
      [pre |-> <<" ">>, post |-> <<" ", " ">>],
      [pre |-> <<"a", " ">>, post |-> <<" ", "a">>] }

\* the object bare, in a json fence, in a plain fence
Wrapped(object) ==
    { object,
      Str_FenceJson \o <<" ">> \o object \o <<" ">> \o Str_Fence,
      Str_Fence \o <<" ">> \o object \o <<" ">> \o Str_Fence }

\* the text without its last closing brace
DropFinalBrace(object) ==
    LET closing == {i \in DOMAIN object : object[i] = "}"}
        last == CHOOSE r \in closing : \A c \in closing : c <= r
    IN  SubSeq(object, 1, last - 1) \o SubSeq(object, last + 1, Len(object))

\* the replies: an object wrapped and surrounded, an object without its
\* final brace, and any text
ExtractInputs ==
    {[form |-> "wrapped", object |-> o, text |-> s.pre \o w \o s.post] :
        <<o, w>> \in {<<o, w>> \in JsonObjects \X UNION {Wrapped(x) : x \in JsonObjects} :
                         w \in Wrapped(o)},
        s \in Surroundings}
    \cup
    {[form |-> "truncated", object |-> o, text |-> DropFinalBrace(o)] : o \in JsonObjects}
    \cup
    {[form |-> "raw", object |-> <<>>, text |-> t] :
        t \in SeqsUpTo(JsonAlphabet, MaxJsonLen)
              \cup {Str_null, <<"[", "1", ",", " ", "\"", "a", "\"", "]">>,
                    Rep("a", ErrorTextLimit + 1), <<" ">>,
                    Rep("{", MaxBraceAttempts + 1)}}

InitExtract ==
    /\ templates = <<>>
    /\ keywords = <<>>
    /\ op = "idle"
    /\ arg \in ExtractInputs
    /\ ret = NoCall

ExtractJsonFromResponse ==
    /\ op = "idle"
    /\ op' = "extract_json_from_response"
    /\ ret' = extract_json_from_response(arg.text)
    /\ UNCHANGED <<templates, keywords, arg>>

NextExtract == ExtractJsonFromResponse

SpecExtract == InitExtract /\ [][NextExtract]_vars

(***************************************************************************)
(* Claims about _extract_json_from_response.                               *)
(***************************************************************************)
ExtractedCall == op = "extract_json_from_response"

ReturnsOriginalObject ==
    ret.raised = "none" /\ ret.value = json_loads(arg.object).value

\* C15: for a text made of one well-formed JSON object, bare or in a code
\* fence, with optional whitespace or prose around it, the extraction returns
\* exactly that object.
C15_WrappedObjectReturned ==
    (ExtractedCall /\ arg.form = "wrapped") => ReturnsOriginalObject

\* C16: for a valid JSON object without its final closing brace, the
\* extraction returns the original object.
C16_TruncatedObjectRecovered ==
    (ExtractedCall /\ arg.form = "truncated") => ReturnsOriginalObject

\* the value is a JSON object
IsMapping(value) == value # <<>> /\ value[1] = "{"

\* C17: for every text the extraction returns a mapping or raises
\* LlamaResponseError; it raises only when the direct parse, the brace search
\* and the brace completion of the cleaned text all fail, and the message
\* carries at most 500 characters of the text.
C17_MappingOrTypedError ==
    ExtractedCall =>
        /\ ret.raised \in {"none", "LlamaResponseError"}
        /\ ret.raised = "none" => IsMapping(ret.value)
        /\ ret.raised = "LlamaResponseError" =>
               /\ Len(ret.carried) <= ErrorTextLimit
               /\ arg.text # <<>> =>
                      LET text == clean_response(arg.text)
                      IN  /\ ~json_loads(text).ok
                          /\ ~pattern_parse(text).ok
                          /\ ~completion_parse(text).ok

(***************************************************************************)
(* StableDiffusionService._wrap_text_to_fit,                               *)
(* src/backend/app/services/stable_diffusion.py lines 310-339.  A font is  *)
(* a record: raises tells whether font.getbbox raises, width gives the     *)
(* advance of each character when it does not.                             *)
(***************************************************************************)
MinApproxChar == 8
ApproxCharDivisor == 40

\* text.split(): the maximal runs without whitespace, from position i on
RECURSIVE split_from(_, _)
split_from(s, i) ==
    LET start == skip_ws(s, i)
    IN  IF start > Len(s)
        THEN <<>>
        ELSE LET stops == {j \in start..Len(s) : IsSpace(s[j])}
                 stop == IF stops = {} THEN Len(s) + 1 ELSE Least(stops)
             IN  <<SubSeq(s, start, stop - 1)>> \o split_from(s, stop)

split(s) == split_from(s, 1)

\* " ".join(lines)
RECURSIVE join(_)
join(lines) ==
    IF lines = <<>> THEN <<>>
    ELSE IF Len(lines) = 1 THEN lines[1]
    ELSE lines[1] \o <<" ">> \o join(Tail(lines))

\* the width font.getbbox gives s: the sum of the advances
RECURSIVE bbox_width(_, _)
bbox_width(s, font) ==
    IF s = <<>> THEN 0 ELSE font.width[s[1]] + bbox_width(Tail(s), font)

\* line 317
approx_char(max_width) == Max(MinApproxChar, max_width \div ApproxCharDivisor)

\* measure, lines 319-324
measure(s, max_width, font) ==
    IF font.raises THEN Len(s) * approx_char(max_width) ELSE bbox_width(s, font)

\* a candidate that joins the word to the line without the space
candidate_unspaced(current, word) == current \o word

\* line 327
candidate(current, word) ==
    IF current # <<>> THEN strip(current \o <<" ">> \o word) ELSE word

\* lines.append(current) if current, lines 331-332 and 337-338
push_line(lines, current) == IF current # <<>> THEN Append(lines, current) ELSE lines

\* a while loop that keeps only the second half of what it splits
RECURSIVE hard_split_dropping(_, _, _, _)
hard_split_dropping(lines, current, max_width, font) ==
    IF measure(current, max_width, font) > max_width /\ Len(current) > 1
    THEN hard_split_dropping(lines,
                             SubSeq(current, Len(current) \div 2 + 1, Len(current)),
                             max_width, font)
    ELSE [lines |-> lines, current |-> current]

\* the while loop of lines 334-336: the lines and the current it leaves
RECURSIVE hard_split(_, _, _, _)
hard_split(lines, current, max_width, font) ==
    IF measure(current, max_width, font) > max_width /\ Len(current) > 1
    THEN hard_split(Append(lines, SubSeq(current, 1, Len(current) \div 2)),
                    SubSeq(current, Len(current) \div 2 + 1, Len(current)),
                    max_width, font)
    ELSE [lines |-> lines, current |-> current]

\* the for loop of lines 326-336 from word i on
RECURSIVE wrap_loop(_, _, _, _, _, _)
wrap_loop(words, i, lines, current, max_width, font) ==
    IF i > Len(words)
    THEN push_line(lines, current)
    ELSE LET word == words[i]
             joined == candidate(current, word)
         IN  IF measure(joined, max_width, font) <= max_width
             THEN wrap_loop(words, i + 1, lines, joined, max_width, font)
             ELSE LET s == hard_split(push_line(lines, current), word, max_width, font)
                  IN  wrap_loop(words, i + 1, s.lines, s.current, max_width, font)

\* _wrap_text_to_fit, lines 310-339
wrap_text_to_fit(text, max_width, font) ==
    IF split(text) = <<>>
    THEN <<>>
    ELSE wrap_loop(split(text), 1, <<>>, <<>>, max_width, font)

(***************************************************************************)
(* Inputs of _wrap_text_to_fit.                                            *)
(***************************************************************************)
MaxCaptionLen == 5

CaptionAlphabet == {"i", "W", " "}

Captions == SeqsUpTo(CaptionAlphabet, MaxCaptionLen)

\* a font whose getbbox raises, a proportional font, a monospaced font
Fonts ==
    { [raises |-> TRUE, width |-> [c \in CaptionAlphabet |-> 0]],
      [raises |-> FALSE,
       width |-> [c \in CaptionAlphabet |-> IF c = "W" THEN 3 ELSE 1]],
      [raises |-> FALSE, width |-> [c \in CaptionAlphabet |-> 2]] }

WrapWidths == {0, 3, 5, 16, 24}

InitWrap ==
    /\ templates = <<>>
    /\ keywords = <<>>
    /\ op = "idle"
    /\ arg \in [text : Captions, max_width : WrapWidths, font : Fonts]
    /\ ret = NoCall

WrapTextToFit ==
    /\ op = "idle"
    /\ op' = "wrap_text_to_fit"
    /\ ret' = [lines |-> wrap_text_to_fit(arg.text, arg.max_width, arg.font)]
    /\ UNCHANGED <<templates, keywords, arg>>

NextWrap == WrapTextToFit

SpecWrap == InitWrap /\ [][NextWrap]_vars

(***************************************************************************)
(* Claims about _wrap_text_to_fit.                                         *)
(***************************************************************************)
WrapCall == op = "wrap_text_to_fit"

Fits(s) == measure(s, arg.max_width, arg.font) <= arg.max_width

\* C19: every returned line of more than one character measures at most
\* max_width, the fragments of a hard-split word included.
C19_LinesFit ==
    WrapCall => \A i \in DOMAIN ret.lines : Len(ret.lines[i]) > 1 => Fits(ret.lines[i])

\* C20 as stated: the returned lines joined with single spaces and split on
\* whitespace give the caption's word sequence.
C20_WordsPreserved ==
    WrapCall => split(join(ret.lines)) = split(arg.text)

\* no word of more than one character is wider than max_width
EveryWordFits ==
    \A i \in DOMAIN split(arg.text) :
        Len(split(arg.text)[i]) > 1 => Fits(split(arg.text)[i])

\* C20 amended: when no word of more than one character is wider than
\* max_width, the returned lines joined with single spaces and split on
\* whitespace give the caption's word sequence.
C20_WordsPreservedWhenWordsFit ==
    (WrapCall /\ EveryWordFits) => split(join(ret.lines)) = split(arg.text)

C20_Witness ==
    /\ WrapCall
    /\ EveryWordFits
    /\ Len(split(arg.text)) >= 3
    /\ Len(ret.lines) = 2
    /\ \E i \in DOMAIN ret.lines : Len(split(ret.lines[i])) >= 2

\* s without its whitespace
RECURSIVE remove_ws(_)
remove_ws(s) ==
    IF s = <<>> THEN <<>>
    ELSE IF IsSpace(s[1]) THEN remove_ws(Tail(s))
    ELSE <<s[1]>> \o remove_ws(Tail(s))

\* "".join(lines)
RECURSIVE concat(_)
concat(lines) == IF lines = <<>> THEN <<>> ELSE lines[1] \o concat(Tail(lines))

\* C21: the returned lines concatenated, whitespace removed, are the caption
\* with its whitespace removed: no character is dropped, duplicated or
\* reordered; the call ends with non-empty lines, at most one per character.
C21_CharactersPreserved ==
    WrapCall =>
        /\ remove_ws(concat(ret.lines)) = remove_ws(arg.text)
        /\ \A i \in DOMAIN ret.lines : ret.lines[i] # <<>>
        /\ Len(ret.lines) <= Len(remove_ws(arg.text))

\* a word was hard-split and another word follows or precedes it
C21_Witness ==
    /\ WrapCall
    /\ Len(split(arg.text)) >= 2
    /\ Len(ret.lines) > Len(split(arg.text))

(***************************************************************************)
(* StableDiffusionService._overlay_caption, stable_diffusion.py 341-421:   *)
(* the font-size search.  An image is its size (w, h) and whether its      *)
(* base64 text decodes to an image; the environment says whether one of    *)
(* the font files exists, whether ImageFont.truetype raises and whether    *)
(* getbbox raises.  A TrueType font of size s draws every character s/2    *)
(* wide and "Ay" s high; the built-in default font has one fixed size.     *)
(***************************************************************************)
MinPaddingX == 24

PaddingXDivisor == 15

MinPaddingY == 16

PaddingYDivisor == 25

CaptionHeightPercent == 22

MinStartFontSize == 28

MaxStartFontSize == 72

StartFontSizeDivisor == 10

FontSizeFloor == 18

FontSizeStep == 4

MaxWrapAttempts == 20

MaxCaptionLines == 4

DefaultFontWidth == 6

DefaultFontHeight == 11

\* lines 361-362
padding_x(w) == Max(MinPaddingX, w \div PaddingXDivisor)

padding_y(h) == Max(MinPaddingY, h \div PaddingYDivisor)

\* line 363
max_line_width(w) == w - 2 * padding_x(w)

\* lines 364-365, int(h * 0.22)
max_caption_height(h) == (h * CaptionHeightPercent) \div 100

\* line 377
start_font_size(w) ==
    Max(MinStartFontSize, Min(MaxStartFontSize, w \div StartFontSizeDivisor))

\* a step of the search that does not stop at the floor
shrink_unfloored(font_size) == font_size - FontSizeStep

\* line 395
shrink(font_size) == Max(FontSizeFloor, font_size - FontSizeStep)

load_default(env) ==
    [raises |-> env.getbbox_raises,
     width |-> [c \in CaptionAlphabet |-> DefaultFontWidth],
     height |-> DefaultFontHeight]

truetype(env, font_size) ==
    [raises |-> env.getbbox_raises,
     width |-> [c \in CaptionAlphabet |-> font_size \div 2],
     height |-> font_size]

\* lines 381-384
load_font(env, font_size) ==
    IF env.font_path /\ ~env.truetype_raises
    THEN truetype(env, font_size)
    ELSE load_default(env)

\* lines 388-391
line_height(font, font_size) ==
    IF font.raises THEN font_size ELSE font.height

\* lines 392-393
caption_fits(lines, font, font_size, h) ==
    /\ line_height(font, font_size) * Len(lines) + padding_y(h) * 2
           <= max_caption_height(h)
    /\ Len(lines) <= MaxCaptionLines

\* lines 346-379: the early returns, then the setup of the search
OverlayStart ==
    /\ op = "idle"
    /\ IF arg.caption = <<>> \/ ~arg.decodable
       THEN /\ op' = "unchanged_image"
            /\ ret' = NoCall
       ELSE /\ op' = "search"
            /\ ret' = [font_size |-> start_font_size(arg.w),
                       lines |-> <<>>,
                       font |-> NoCall,
                       tried |-> <<>>,
                       done |-> FALSE]
    /\ UNCHANGED <<templates, keywords, arg>>

\* lines 380-395: one pass of "for _ in range(20)"
WrapAttempt ==
    /\ op = "search"
    /\ ~ret.done
    /\ Len(ret.tried) < MaxWrapAttempts
    /\ LET font == load_font(arg.env, ret.font_size)
           lines == wrap_text_to_fit(arg.caption, max_line_width(arg.w), font)
           fits == caption_fits(lines, font, ret.font_size, arg.h)
           stop == ~arg.env.font_path \/ fits
       IN ret' = [font_size |-> IF stop THEN ret.font_size
                                ELSE shrink(ret.font_size),
                  lines |-> lines,
                  font |-> font,
                  tried |-> Append(ret.tried,
                                   [size |-> ret.font_size,
                                    checked |-> arg.env.font_path,
                                    fits |-> fits]),
                  done |-> stop]
    /\ UNCHANGED <<templates, keywords, op, arg>>

\* lines 396-421: the loop is left, the lines are drawn
OverlayDraw ==
    /\ op = "search"
    /\ ret.done \/ Len(ret.tried) = MaxWrapAttempts
    /\ op' = "drawn"
    /\ ret' = [ret EXCEPT
                 !.lines = IF ret.lines = <<>>
                           THEN << SubSeq(arg.caption, 1,
                                     Min(Len(arg.caption),
                                         Max(1, max_line_width(arg.w) \div 10))) >>
                           ELSE ret.lines]
    /\ UNCHANGED <<templates, keywords, arg>>

MaxCaptionWords == 6

MaxWordLen == 4

\* n words of k letters each, joined by single spaces
caption_of(n, k) ==
    [i \in 1..(n * (k + 1) - 1) |-> IF i % (k + 1) = 0 THEN " " ELSE "W"]

\* _generate_caption returns a stripped, non-empty text (line 307)
OverlayCaptions ==
    { caption_of(n, k) : n \in 1..MaxCaptionWords, k \in 1..MaxWordLen }

ImageWidths == {100, 300, 1024}

ImageHeights == {100, 512, 1024}

FontEnvs ==
    [font_path : BOOLEAN, truetype_raises : BOOLEAN, getbbox_raises : BOOLEAN]

InitOverlay ==
    /\ templates = <<>>
    /\ keywords = <<>>
    /\ op = "idle"
    /\ arg \in [w : ImageWidths, h : ImageHeights, decodable : BOOLEAN,
                caption : OverlayCaptions, env : FontEnvs]
    /\ ret = NoCall

NextOverlay == OverlayStart \/ WrapAttempt \/ OverlayDraw

SpecOverlay == InitOverlay /\ [][NextOverlay]_vars

Searching == op \in {"search", "drawn"}

\* C22: the search starts at max(28, min(72, w // 10)); the size changes
\* only after an attempt whose block was too tall or had more than 4 lines,
\* and then to the size less 4 but not below 18; no size tried is below 18;
\* at most 20 attempts are made; and when the lines are drawn they are the
\* caption wrapped with the font of the final size.
C22_FontSizeSearch ==
    Searching =>
        /\ Len(ret.tried) <= MaxWrapAttempts
        /\ ret.font_size >= FontSizeFloor
        /\ \A i \in 1..Len(ret.tried) :
              /\ ret.tried[i].size >= FontSizeFloor
              /\ i = 1 => ret.tried[i].size =
                            Max(28, Min(72, arg.w \div 10))
              /\ i > 1 =>
                    /\ ret.tried[i - 1].checked /\ ~ret.tried[i - 1].fits
                    /\ ret.tried[i].size =
                          Max(18, ret.tried[i - 1].size - 4)
        /\ op = "drawn" =>
              /\ Len(ret.tried) >= 1
              /\ ret.lines = wrap_text_to_fit(arg.caption,
                                 max_line_width(arg.w),
                                 load_font(arg.env, ret.font_size))
              /\ ret.font = load_font(arg.env, ret.font_size)

\* a search that ran out of its 20 attempts at the floor and drew anyway
C22_Witness ==
    /\ op = "drawn"
    /\ Len(ret.tried) = MaxWrapAttempts
    /\ ret.font_size = FontSizeFloor
    /\ ret.tried[1].size > FontSizeFloor
    /\ ~ret.tried[MaxWrapAttempts].fits

(***************************************************************************)
(* TemplateService.__init__, _load_keywords and _load_templates,           *)
(* templates.py 51-103.  The files of the templates directory are the      *)
(* input: the index, the definition files it names and the keyword file.   *)
(* A file is absent, or holds text that is not JSON, or holds a JSON       *)
(* object.  Identifiers and paths are atoms: the loader only uses them as  *)
(* dictionary keys and file names.                                         *)
(***************************************************************************)
MemeTemplateFields ==
    {"id", "name", "description", "use_cases", "confidence_threshold",
     "image", "text_style", "text_slots", "example"}

\* MemeTemplate(**template_data), lines 34-44 and 96: every field but
\* base_path is required
MemeTemplate_accepts(template_data) ==
    MemeTemplateFields \subseteq DOMAIN template_data

DefinitionPaths == {"d1/template.json", "d2/template.json"}

\* os.path.dirname, line 97
dirname(path) == IF path = "d1/template.json" THEN "d1" ELSE "d2"

\* self.templates[template_id] = template, line 98: a key already present
\* keeps its place, a new key goes last
store(catalog, key, template) ==
    IF \E i \in DOMAIN catalog : catalog[i].key = key
    THEN [i \in DOMAIN catalog |->
             IF catalog[i].key = key THEN template ELSE catalog[i]]
    ELSE Append(catalog, template)

\* lines 96-97: the template as validated, with its base_path
loaded_template(entry, template_data) ==
    [key |-> entry["id"], id |-> template_data["id"],
     base_path |-> dirname(entry["path"])]

RECURSIVE load_loop(_, _, _, _)
\* lines 84-101; the KeyError of lines 85-86 is raised outside the inner
\* try and leaves the loop for the handler of line 102
load_loop(entries, files, i, catalog) ==
    IF i > Len(entries) THEN catalog
    ELSE LET entry == entries[i] IN
         IF "id" \notin DOMAIN entry \/ "path" \notin DOMAIN entry
         THEN catalog
         ELSE LET file == files[entry["path"]] IN
              IF ~file.exists
              THEN load_loop(entries, files, i + 1, catalog)
              ELSE IF ~file.parses \/ ~MemeTemplate_accepts(file.data)
              THEN load_loop(entries, files, i + 1, catalog)
              ELSE load_loop(entries, files, i + 1,
                       store(catalog, entry["id"],
                             loaded_template(entry, file.data)))

\* _load_templates, lines 73-103; self.templates starts empty (line 54)
load_templates(index, files) ==
    IF ~index.exists \/ ~index.parses THEN <<>>
    ELSE load_loop(index.templates, files, 1, <<>>)

\* _load_keywords, lines 59-71; self.keywords starts empty (line 55)
load_keywords(keywords_file) ==
    IF ~keywords_file.exists \/ ~keywords_file.parses THEN <<>>
    ELSE keywords_file.data

\* TemplateService(), lines 51-57
TemplateServiceInit ==
    /\ op = "idle"
    /\ op' = "constructed"
    /\ templates' = load_templates(arg.index, arg.files)
    /\ keywords' = load_keywords(arg.keywords_file)
    /\ UNCHANGED <<arg, ret>>

MaxIndexEntries == 3

NoData == [f \in {} |-> "v"]

template_data_of(id, fields) == [f \in fields |-> IF f = "id" THEN id ELSE "v"]

\* a definition file: absent, not JSON, an object without "name", or a
\* complete definition that names itself t1 or t2
DefinitionFiles ==
    { [exists |-> FALSE, parses |-> FALSE, data |-> NoData],
      [exists |-> TRUE, parses |-> FALSE, data |-> NoData],
      [exists |-> TRUE, parses |-> TRUE,
       data |-> template_data_of("t1", MemeTemplateFields \ {"name"})],
      [exists |-> TRUE, parses |-> TRUE,
       data |-> template_data_of("t1", MemeTemplateFields)],
      [exists |-> TRUE, parses |-> TRUE,
       data |-> template_data_of("t2", MemeTemplateFields)] }

\* an index entry: with id and path, or without one of them
IndexEntries ==
    UNION { [{"id", "path"} -> {"t1", "t2"} \cup DefinitionPaths],
            [{"id"} -> {"t1"}], [{"path"} -> {"d1/template.json"}] }

WellTyped(entry) ==
    /\ "id" \in DOMAIN entry => entry["id"] \in {"t1", "t2"}
    /\ "path" \in DOMAIN entry => entry["path"] \in DefinitionPaths

IndexFiles ==
    { [exists |-> FALSE, parses |-> FALSE, templates |-> <<>>],
      [exists |-> TRUE, parses |-> FALSE, templates |-> <<>>] }
    \cup { [exists |-> TRUE, parses |-> TRUE, templates |-> es] :
             es \in SeqsUpTo({e \in IndexEntries : WellTyped(e)},
                             MaxIndexEntries) }

KeywordsFiles ==
    { [exists |-> FALSE, parses |-> FALSE, data |-> <<>>],
      [exists |-> TRUE, parses |-> FALSE, data |-> <<>>],
      [exists |-> TRUE, parses |-> TRUE,
       data |-> <<[key |-> "t1", groups |-> [strong |-> <<Str_a>>]]>>] }

InitLoad ==
    /\ templates = <<>>
    /\ keywords = <<>>
    /\ op = "idle"
    /\ arg \in [index : IndexFiles, files : [DefinitionPaths -> DefinitionFiles],
                keywords_file : KeywordsFiles]
    /\ ret = NoCall

NextLoad == TemplateServiceInit

SpecLoad == InitLoad /\ [][NextLoad]_vars

Constructed == op = "constructed"

\* an entry with id and path whose definition file is there, parses and
\* validates
WellFormed(entry) ==
    /\ {"id", "path"} \subseteq DOMAIN entry
    /\ arg.files[entry["path"]].exists
    /\ arg.files[entry["path"]].parses
    /\ MemeTemplate_accepts(arg.files[entry["path"]].data)

\* the entry is the last well-formed one of the index with its id
LastOfItsId(i) ==
    \A j \in (i + 1)..Len(arg.index.templates) :
        WellFormed(arg.index.templates[j]) =>
            arg.index.templates[j]["id"] # arg.index.templates[i]["id"]

Loaded(entry) ==
    \E k \in DOMAIN templates :
        templates[k] = loaded_template(entry, arg.files[entry["path"]].data)

\* C23: after loading, every well-formed entry of the index is in the
\* catalog, whatever entries come before or after it; a malformed entry, a
\* missing, unparsable or invalid definition file leaves nothing in the
\* catalog.
C23_WellFormedEntriesLoaded ==
    (Constructed /\ arg.index.exists /\ arg.index.parses) =>
        /\ \A i \in DOMAIN arg.index.templates :
              (WellFormed(arg.index.templates[i]) /\ LastOfItsId(i))
                  => Loaded(arg.index.templates[i])
        /\ \A k \in DOMAIN templates :
              \E i \in DOMAIN arg.index.templates :
                  /\ WellFormed(arg.index.templates[i])
                  /\ templates[k] = loaded_template(arg.index.templates[i],
                         arg.files[arg.index.templates[i]["path"]].data)

\* C30: after loading, every template of the catalog is stored under a key
\* equal to its own id field.
C30_KeyEqualsId ==
    Constructed => \A k \in DOMAIN templates : templates[k].id = templates[k].key

(***************************************************************************)
(* get_template_service, templates.py 368-375, as the dependency of the    *)
(* generate_meme route (meme.py line 98).  It is a plain "def", so every   *)
(* request runs it on a thread of the worker pool; the constructor reads   *)
(* files, and a thread can be suspended at any point between the test of   *)
(* line 373, the construction, the assignment of line 374 and the read of  *)
(* line 375.  op maps each request to its position, ret holds the global   *)
(* _template_service (0 is None), each thread's new instance, the          *)
(* instance each request received and the instances constructed so far;    *)
(* templates and keywords are those of the instance in the global.         *)
(***************************************************************************)
MaxRequests == 3

Requests == 1..MaxRequests

None == 0

\* the request arrives and its dependency starts on a pool thread
CallGetTemplateService(t) ==
    /\ op[t] = "waiting"
    /\ op' = [op EXCEPT ![t] = "test"]
    /\ UNCHANGED <<templates, keywords, arg, ret>>

\* line 373: if _template_service is None
TestService(t) ==
    /\ op[t] = "test"
    /\ op' = [op EXCEPT ![t] = IF ret.service = None THEN "construct"
                                ELSE "return"]
    /\ UNCHANGED <<templates, keywords, arg, ret>>

\* line 374, right-hand side: TemplateService() runs _load_templates and
\* _load_keywords and yields a new instance
ConstructService(t) ==
    /\ op[t] = "construct"
    /\ op' = [op EXCEPT ![t] = "assign"]
    /\ ret' = [ret EXCEPT
                 !.instances = Append(@,
                     [templates |-> load_templates(arg.index, arg.files),
                      keywords |-> load_keywords(arg.keywords_file)]),
                 !.new[t] = Len(ret.instances) + 1]
    /\ UNCHANGED <<templates, keywords, arg>>

\* line 374, the store to the global
AssignService(t) ==
    /\ op[t] = "assign"
    /\ op' = [op EXCEPT ![t] = "return"]
    /\ ret' = [ret EXCEPT !.service = ret.new[t]]
    /\ templates' = ret.instances[ret.new[t]].templates
    /\ keywords' = ret.instances[ret.new[t]].keywords
    /\ UNCHANGED arg

\* line 375: return _template_service
ReturnService(t) ==
    /\ op[t] = "return"
    /\ op' = [op EXCEPT ![t] = "injected"]
    /\ ret' = [ret EXCEPT !.received[t] = ret.service]
    /\ UNCHANGED <<templates, keywords, arg>>

\* the templates directory: one valid definition, or an index without file
SingletonInputs ==
    {a \in [index : IndexFiles, files : [DefinitionPaths -> DefinitionFiles],
            keywords_file : KeywordsFiles] :
        /\ a.index.parses
        /\ a.index.templates = <<[id |-> "t1", path |-> "d1/template.json"]>>
        /\ a.files["d2/template.json"].exists = FALSE
        /\ a.files["d1/template.json"].parses
        /\ a.keywords_file.parses}

InitSingleton ==
    /\ templates = <<>>
    /\ keywords = <<>>
    /\ op = [t \in Requests |-> "waiting"]
    /\ arg \in SingletonInputs
    /\ ret = [service |-> None,
              new |-> [t \in Requests |-> None],
              received |-> [t \in Requests |-> None],
              instances |-> <<>>]

NextSingleton ==
    \E t \in Requests :
        \/ CallGetTemplateService(t)
        \/ TestService(t)
        \/ ConstructService(t)
        \/ AssignService(t)
        \/ ReturnService(t)

SpecSingleton == InitSingleton /\ [][NextSingleton]_vars

\* C26: the loaders run at most once per process, and all requests that
\* were given a TemplateService were given the same instance.
C26_BuiltOnce ==
    /\ Len(ret.instances) <= 1
    /\ \A t, u \in Requests :
          (op[t] = "injected" /\ op[u] = "injected")
              => ret.received[t] = ret.received[u]

(***************************************************************************)
(* The catalog after construction under any sequence of calls of the       *)
(* TemplateService methods, templates.py 105-360.  arg is the concept the  *)
(* caller holds and passes to match_template and fill_template_slots; op   *)
(* counts the calls made; ret is the last call and what it returned.  The  *)
(* methods assign to their locals only (best_match, slot_values,           *)
(* final_values, the opened image): none assigns to self.templates,        *)
(* self.keywords, a template or the concept.                               *)
(***************************************************************************)
MaxCalls == 2

\* the text of a template id
id_text(id) ==
    IF id = "two_buttons" THEN <<"t", "w", "o", "_", "b", "u", "t", "t", "o", "n", "s">>
    ELSE <<"c", "h", "a", "n", "g", "e", "_", "m", "y", "_", "m", "i", "n", "d">>

\* the template as the string operations of match_template read it
with_id_text(template) == [template EXCEPT !.id = id_text(@)]

\* get_template_by_id, lines 148-150: the place of the template, 0 for None
get_template_by_id(ts, template_id) ==
    IF InCatalog(ts, template_id) THEN Lookup(ts, template_id) ELSE 0

Called(call, result) == [call |-> call, result |-> result]

\* lines 105-146
CallMatchTemplate ==
    /\ op < MaxCalls
    /\ op' = op + 1
    /\ ret' = Called("match_template",
                  match_template([i \in DOMAIN templates |->
                                     with_id_text(templates[i])], arg))
    /\ UNCHANGED <<templates, keywords, arg>>

\* lines 152-183
CallMatchTemplatesByKeywords ==
    /\ op < MaxCalls
    /\ op' = op + 1
    /\ \E description \in RouteDescriptions :
          ret' = Called("match_templates_by_keywords",
                     match_templates_by_keywords(templates, keywords,
                         description, DefaultThreshold))
    /\ UNCHANGED <<templates, keywords, arg>>

\* lines 148-150
CallGetTemplateById ==
    /\ op < MaxCalls
    /\ op' = op + 1
    /\ \E template_id \in {"t1", "t2", "t9"} :
          ret' = Called("get_template_by_id",
                        get_template_by_id(templates, template_id))
    /\ UNCHANGED <<templates, keywords, arg>>

\* lines 185-215
CallSanitizeText ==
    /\ op < MaxCalls
    /\ op' = op + 1
    /\ \E text \in {arg.caption, Str_long}, max_chars \in {MaxCharsBound, 100} :
          ret' = Called("sanitize_text", sanitize_text(text, max_chars))
    /\ UNCHANGED <<templates, keywords, arg>>

\* a fill_template_slots whose slot_values is the concept's own
\* template_slots instead of the new dict of line 231
CallFillTemplateSlotsInPlace ==
    /\ op < MaxCalls
    /\ op' = op + 1
    /\ \E i \in DOMAIN templates :
          /\ ret' = Called("fill_template_slots",
                           fill_template_slots(templates[i], arg))
          /\ arg' = IF uses_upstream_slots(templates[i], arg)
                       \/ fallback_slots(templates[i], arg).raised # "none"
                    THEN arg
                    ELSE [arg EXCEPT !.template_slots =
                             fallback_slots(templates[i], arg).values]
    /\ UNCHANGED <<templates, keywords>>

\* lines 217-307
CallFillTemplateSlots ==
    /\ op < MaxCalls
    /\ op' = op + 1
    /\ \E i \in DOMAIN templates :
          ret' = Called("fill_template_slots",
                        fill_template_slots(templates[i], arg))
    /\ UNCHANGED <<templates, keywords, arg>>

\* lines 309-360
CallRenderTemplate ==
    /\ op < MaxCalls
    /\ op' = op + 1
    /\ \E i \in DOMAIN templates, slot_values \in LightSlotsPool :
          ret' = Called("render_template",
                        render_template(templates[i], slot_values))
    /\ UNCHANGED <<templates, keywords, arg>>

FrameTemplatePool ==
    {[key |-> "t1", id |-> "two_buttons", name |-> <<"T">>,
      description |-> Str_a, use_cases |-> <<Str_x>>,
      confidence_threshold |-> Frac(3, 10),
      text_slots |-> RouteSlots(<<"option_1", "option_2">>, MaxCharsBound),
      image_exists |-> e] : e \in BOOLEAN}
    \cup
    {[key |-> "t2", id |-> "change_my_mind", name |-> <<"C">>,
      description |-> <<>>, use_cases |-> <<Str_x, Str_y>>,
      confidence_threshold |-> Frac(5, 10),
      text_slots |-> RouteSlots(<<"statement">>, MaxCharsBound),
      image_exists |-> TRUE]}

FrameConcepts ==
    [use_cases : {<<>>, <<Str_x>>},
     keywords : {<<>>, <<Str_a, <<"b", "_", "c">>>>},
     intent : {<<>>, Str_x},
     caption : {<<"z">>, <<"T", "w", "o", " ", "b", "u", "t", "t", "o", "n", "s">>},
     template_slots : {EmptyDict,
                       [k \in {"option_1", "option_2", "statement"} |-> Str_a]}]

InitFrame ==
    /\ templates \in Catalogs(FrameTemplatePool, MaxTemplates)
    /\ keywords \in RouteKeywordFiles
    /\ op = 0
    /\ arg \in FrameConcepts
    /\ ret = NoCall

NextFrame ==
    \/ CallMatchTemplate
    \/ CallMatchTemplatesByKeywords
    \/ CallGetTemplateById
    \/ CallSanitizeText
    \/ CallFillTemplateSlots
    \/ CallRenderTemplate

SpecFrame == InitFrame /\ [][NextFrame]_vars

\* C27: no call of match_template, match_templates_by_keywords,
\* get_template_by_id, sanitize_text, fill_template_slots or render_template
\* changes the templates or the keywords of the catalog or the concept
\* (keywords, use_cases, caption, template_slots) passed to it.
C27_CatalogAndConceptUnchanged ==
    [][/\ templates' = templates
       /\ keywords' = keywords
       /\ arg' = arg]_vars

\* the last of several calls filled the slots of a template from the
\* fallback strategy
C27_Witness ==
    /\ op = MaxCalls
    /\ ret.call = "fill_template_slots"
    /\ ret.result.raised = "none"
    /\ arg.template_slots = EmptyDict
    /\ templates # <<>>

(***************************************************************************)
(* ColabService.generate_meme and _parse_response, colab.py 141-265.  The  *)
(* environment of a call says whether COLAB_API_URL is set, how the POST   *)
(* ends, and the JSON value of the reply.  A field of the reply is absent  *)
(* or null (kind "null"), a string, a boolean or a number.                 *)
(***************************************************************************)
Null == [kind |-> "null", text |-> <<>>, truth |-> FALSE]

StrValue(s) == [kind |-> "str", text |-> s, truth |-> FALSE]

BoolValue(b) == [kind |-> "bool", text |-> <<>>, truth |-> b]

Number == [kind |-> "number", text |-> <<>>, truth |-> FALSE]

\* an Optional[str] field of a validated model
optional_str(value) == IF value.kind = "null" THEN NoText ELSE Some(value.text)

\* ColabResponse(**response_data), schemas/meme.py lines 196-231: the two
\* images and error are Optional[str], success is Optional[bool]
ColabResponse_accepts(response_data) ==
    /\ response_data.is_object
    /\ \A f \in {"image_url", "image_base64", "error"} :
          response_data.fields[f].kind \in {"null", "str"}
    /\ response_data.fields["success"].kind \in {"null", "bool"}

\* has_image, schemas/meme.py lines 228-231
has_image(fields) ==
    \/ Truthy(optional_str(fields["image_url"]))
    \/ Truthy(optional_str(fields["image_base64"]))

Raised(exception) ==
    [raised |-> exception, image_url |-> NoText, image_base64 |-> NoText]

\* a _parse_response without the test of lines 169-174
parse_response_without_image_test(response_data) ==
    IF ~ColabResponse_accepts(response_data)
    THEN Raised("ColabResponseError")
    ELSE IF \/ (response_data.fields["success"].kind = "bool"
                   /\ ~response_data.fields["success"].truth)
            \/ Truthy(optional_str(response_data.fields["error"]))
    THEN Raised("ColabResponseError")
    ELSE [raised |-> "none",
          image_url |-> optional_str(response_data.fields["image_url"]),
          image_base64 |-> optional_str(response_data.fields["image_base64"])]

\* _parse_response, colab.py lines 141-176
parse_response(response_data) ==
    IF ~ColabResponse_accepts(response_data)
    THEN Raised("ColabResponseError")
    ELSE IF \/ (response_data.fields["success"].kind = "bool"
                   /\ ~response_data.fields["success"].truth)
            \/ Truthy(optional_str(response_data.fields["error"]))
    THEN Raised("ColabResponseError")
    ELSE IF ~has_image(response_data.fields)
    THEN Raised("ColabResponseError")
    ELSE [raised |-> "none",
          image_url |-> optional_str(response_data.fields["image_url"]),
          image_base64 |-> optional_str(response_data.fields["image_base64"])]

\* generate_meme, colab.py lines 178-265
colab_generate_meme(colab) ==
    CASE ~colab.url_set -> Raised("ColabConnectionError")
      [] colab.outcome \in {"connect_error", "timeout", "http_error"} ->
             Raised("ColabConnectionError")
      [] colab.outcome = "bad_status" -> Raised("ColabResponseError")
      [] colab.outcome = "not_json" -> Raised("JSONDecodeError")
      [] OTHER -> parse_response(colab.response_data)

\* colab_service.generate_meme(llama_output) is called with a concept
ColabGenerateMeme ==
    /\ op = "colab_call"
    /\ LET reply == colab_generate_meme(arg.colab)
       IN  /\ op' = IF reply.raised = "none" THEN "colab_returned"
                    ELSE "colab_raised"
           /\ ret' = reply
    /\ UNCHANGED <<templates, keywords, arg>>

ImageValues == {Null, StrValue(<<>>), StrValue(<<"u">>), Number}

ColabReplyFields ==
    {f \in [{"image_url", "image_base64", "success", "error"} ->
               ImageValues \cup {BoolValue(TRUE), BoolValue(FALSE), StrValue(<<"e">>)}] :
        /\ f["image_url"] \in ImageValues
        /\ f["image_base64"] \in ImageValues \ {Number}
        /\ f["success"] \in {Null, BoolValue(TRUE), BoolValue(FALSE), Number}
        /\ f["error"] \in {Null, StrValue(<<>>), StrValue(<<"e">>)}}

NoFields ==
    [f \in {"image_url", "image_base64", "success", "error"} |-> Null]

ColabEnvironments ==
    {[url_set |-> u, outcome |-> o,
      response_data |-> [is_object |-> FALSE, fields |-> NoFields]] :
        u \in BOOLEAN,
        o \in {"connect_error", "timeout", "http_error", "bad_status",
               "not_json", "json"}}
    \cup
    {[url_set |-> TRUE, outcome |-> "json",
      response_data |-> [is_object |-> TRUE, fields |-> f]] :
        f \in ColabReplyFields}

InitColab ==
    /\ templates = <<>>
    /\ keywords = <<>>
    /\ op = "colab_call"
    /\ arg \in [colab : ColabEnvironments]
    /\ ret = NoCall

\* the requests of the route together with the calls of the Colab service
InitResponse == InitRoute \/ InitColab

NextResponse == NextRoute \/ ColabGenerateMeme

SpecResponse == InitResponse /\ [][NextResponse]_vars

\* the reply says it failed, carries an error text, or carries no image
BadReply(response_data) ==
    \/ (response_data.fields["success"].kind = "bool"
           /\ ~response_data.fields["success"].truth)
    \/ (response_data.fields["error"].kind = "str"
           /\ response_data.fields["error"].text # <<>>)
    \/ \A f \in {"image_url", "image_base64"} :
          response_data.fields[f].kind # "str"
              \/ response_data.fields[f].text = <<>>

CarriesImage == Truthy(ret.image_url) \/ Truthy(ret.image_base64)

\* C29: every 200 response of the route carries a non-empty image_url or
\* image_base64; what the Colab service returns for the response of step 4
\* carries one too, and a Colab reply with success false, an error text or
\* no image is raised as ColabResponseError instead of being returned.
C29_SuccessCarriesImage ==
    /\ (op = "returned") => (ret.status = 200 /\ CarriesImage)
    /\ (op = "raised") => ret.status # 200
    /\ (op = "colab_returned") =>
          (CarriesImage /\ ~BadReply(arg.colab.response_data))
    /\ (op = "colab_raised" /\ arg.colab.url_set /\ arg.colab.outcome = "json"
           /\ arg.colab.response_data.is_object) =>
          ret.raised = "ColabResponseError"

\* a reply that says success and carries no error text but has no image
\* was raised as an error
C29_Witness ==
    /\ op = "colab_raised"
    /\ arg.colab.outcome = "json"
    /\ arg.colab.response_data.is_object
    /\ arg.colab.response_data.fields["success"] = BoolValue(TRUE)
    /\ arg.colab.response_data.fields["error"] = Null
    /\ arg.colab.response_data.fields["image_url"] = StrValue(<<>>)
    /\ ret.raised = "ColabResponseError"

====
